---- MODULE Spec2Model ----
(***************************************************************************)
(* The example programs of progschj/OpenGL-Examples as one state machine.  *)
(* Each example is a single main(): its straight-line call sequence is     *)
(* written down as a list of instructions (setup, frame body, teardown),   *)
(* one entry per call or checked block of the source, with the source line *)
(* in the entry.  The actions below execute one instruction each.  What    *)
(* the window system, the GL loader, the shader compiler, the linker, the  *)
(* GL error queue and the user do is chosen nondeterministically.          *)
(***************************************************************************)
EXTENDS Integers, Sequences, FiniteSets, TLC

\* number of loop iterations explored per run
MaxFrames == 2
\* number of voxel chunks of 10queries_conditional_render explored
NumChunks == 1

Examples == {"00skeleton", "0skeleton", "3texture", "05fbo_fxaa",
             "07geometry_shader_blending", "08map_buffer",
             "09transform_feedback", "10queries_conditional_render",
             "11tesselation", "12shader_image_load_store",
             "13compute_shader_nbody", "XXcompute_shader",
             "XXcompute_shader_nbody"}

\* the examples written against GLFW 2 (global running flag, window close
\* callback, events polled inside glfwSwapBuffers)
Glfw2Examples == {"00skeleton", "0skeleton", "3texture",
                  "12shader_image_load_store", "XXcompute_shader",
                  "XXcompute_shader_nbody"}

Range(s) == {s[k] : k \in 1..Len(s)}

(***************************************************************************)
(* GL handles are pairs <<variable name, index>>; the index is 0 for a     *)
(* scalar variable and the array index for vao[i], vbo[i], queries[i].     *)
(* In 10queries_conditional_render the chunk objects are reached through  *)
(* the chunks vector, which the frame loop sorts: index -1 stands for      *)
(* "of chunks[j]" and index -(k+2) for "of chunks[k]"; both are resolved   *)
(* against the current order of the vector when the call executes.         *)
(***************************************************************************)
H(name) == <<name, 0>>
A(name, k) == <<name, k>>
AtJ(name) == <<name, 0 - 1>>
AtI(name, k) == <<name, 0 - (k + 2)>>

(***************************************************************************)
(* Instructions.  op: the kind of call; h: the GL handles the call takes   *)
(* or operates on; chk: whether the source tests the call's result; arg:   *)
(* further operands (the cleanup calls of a failure branch, the program    *)
(* and shader of an attach, the name of the GL entry point); ln: the       *)
(* source line.                                                            *)
(***************************************************************************)
Ins(op, h, arg, ln) == [op |-> op, h |-> h, chk |-> TRUE, arg |-> arg, ln |-> ln]
Unchecked(op, ln) == [op |-> op, h |-> {}, chk |-> FALSE, arg |-> <<>>, ln |-> ln]

\* glfwCloseWindow/glfwDestroyWindow followed by glfwTerminate
Both == <<"closeWindow", "terminate">>

\* glCreateShader, glShaderSource, glCompileShader,
\* if(!check_shader_compile_status(sh)) { cleanup; return 1; }
Compile(sh, cleanup, ln) == Ins("compile", {H(sh)}, cleanup, ln)
\* glCreateProgram, glAttachShader..., glLinkProgram, check_program_link_status
Program(prog, shaders, ln, linkLn) ==
    <<Ins("createProgram", {H(prog)}, <<>>, ln)>>
    \o [k \in 1..Len(shaders) |->
          Ins("attach", {H(prog), H(shaders[k])}, <<prog, shaders[k]>>, ln + 2 + k)]
    \o <<Ins("link", {H(prog)}, <<>>, linkLn)>>
UniformLoc(prog, ln) == Ins("uniformLoc", {H(prog)}, <<>>, ln)
Detach(prog, sh, ln) == Ins("detach", {H(prog), H(sh)}, <<prog, sh>>, ln)
Delete(hs, ln) == Ins("delete", hs, <<>>, ln)
Gen(hs, ln) == Ins("gen", hs, <<>>, ln)
\* a GL call that binds or reads the named objects
Use(hs, what, ln) == Ins("use", hs, <<what>>, ln)
\* a GL call that allocates or uploads the storage of the named object
Data(hs, what, ln) == Ins("data", hs, <<what>>, ln)
\* a GL call that changes context state and names no object
State(what, ln) == Ins("state", {}, <<what>>, ln)
\* computation on the host that issues no GL call
Host(what, ln) == Ins("host", {}, <<what>>, ln)
Uniform(prog, ln) == Ins("uniform", {H(prog)}, <<>>, ln)
Draw(hs, ln) == Ins("draw", hs, <<>>, ln)
Dispatch(prog, ln) == Ins("dispatch", {H(prog)}, <<>>, ln)
While(kind, ln) == Ins("while", {}, <<kind>>, ln)
GetErr(kind, ln) == Ins("getError", {}, <<kind>>, ln)
Return(code, ln) == Ins("return", {}, <<code>>, ln)

RECURSIVE Repeat(_, _)
Repeat(seq, n) == IF n = 0 THEN <<>> ELSE seq \o Repeat(seq, n - 1)

RECURSIVE Flatten(_)
Flatten(seqs) == IF seqs = <<>> THEN <<>> ELSE Head(seqs) \o Flatten(Tail(seqs))

\* the window setup shared by the GLFW 3 examples: glfwInit at line base
Glfw3Prologue(base) ==
    << Ins("glfwInit", {}, <<>>, base),
       Host("glfwWindowHint", base + 6),
       Ins("openWindow", {}, <<"terminate">>, base + 12),
       Ins("makeCurrent", {}, <<>>, base + 18),
       Ins("loaderInit", {}, Both, base + 20) >>

(***************************************************************************)
(* 00skeleton.cpp                                                          *)
(***************************************************************************)
Setup_00skeleton ==
    << Ins("glfwInit", {}, <<>>, 34),
       Host("glfwOpenWindowHint", 41),
       Ins("openWindow", {}, <<"terminate">>, 46),
       Host("glfwSetWindowCloseCallback", 54),
       Ins("loaderInit", {}, Both, 58),
       Ins("setRunning", {}, <<>>, 68) >>

Frame_00skeleton ==
    << While("running", 69),
       Ins("keyEsc", {}, <<>>, 72),
       GetErr("running", 81),
       Ins("swap", {}, <<>>, 89) >>

Teardown_00skeleton ==
    << Ins("closeWindow", {}, <<>>, 93),
       Ins("terminate", {}, <<>>, 94),
       Return("0", 95) >>

(***************************************************************************)
(* 0skeleton.cpp                                                           *)
(***************************************************************************)
Setup_0skeleton ==
    << Unchecked("glfwInit", 27),
       Host("glfwOpenWindowHint", 30),
       Unchecked("openWindow", 35),
       Host("glfwSetWindowCloseCallback", 38),
       Ins("loaderInit", {}, <<>>, 41),
       Ins("setRunning", {}, <<>>, 49) >>

Frame_0skeleton ==
    << While("running", 50),
       Ins("keyEsc", {}, <<>>, 53),
       GetErr("running", 62),
       Ins("swap", {}, <<>>, 70) >>

Teardown_0skeleton ==
    << Ins("terminate", {}, <<>>, 73),
       Return("0", 74) >>

(***************************************************************************)
(* 3texture.cpp                                                            *)
(***************************************************************************)
Setup_3texture ==
    << Unchecked("glfwInit", 63),
       Host("glfwOpenWindowHint", 66),
       Unchecked("openWindow", 71),
       Host("glfwSetWindowCloseCallback", 74),
       Ins("loaderInit", {}, <<"terminate">>, 77),
       Compile("vertex_shader", <<>>, 112),
       Compile("fragment_shader", <<>>, 123),
       Ins("createProgram", {H("shader_program")}, <<>>, 134),
       Ins("attach", {H("shader_program"), H("vertex_shader")},
           <<"shader_program", "vertex_shader">>, 137),
       Ins("attach", {H("shader_program"), H("fragment_shader")},
           <<"shader_program", "fragment_shader">>, 138),
       Use({H("shader_program")}, "glBindAttribLocation", 141),
       Use({H("shader_program")}, "glBindFragDataLocation", 145),
       Ins("link", {H("shader_program")}, <<>>, 148),
       UniformLoc("shader_program", 152),
       Gen({H("vao")}, 158),
       Use({H("vao")}, "glBindVertexArray", 159),
       Gen({H("vbo")}, 162),
       Use({H("vbo")}, "glBindBuffer", 163),
       Data({H("vbo")}, "glBufferData", 175),
       State("glVertexAttribPointer", 179),
       Gen({H("ibo")}, 187),
       Use({H("ibo")}, "glBindBuffer(GL_ELEMENT_ARRAY_BUFFER)", 188),
       Data({H("ibo")}, "glBufferData", 196),
       State("glBindVertexArray(0)", 199),
       Gen({H("texture")}, 205),
       Use({H("texture")}, "glBindTexture", 208),
       Host("image", 211),
       State("glTexParameteri", 223),
       Data({H("texture")}, "glTexImage2D", 229),
       State("glBindTexture(0)", 232),
       Ins("setRunning", {}, <<>>, 234) >>

\* the frame with the buffer swap issued before the draw call
Frame_3texture_mutant ==
    << While("running", 235),
       Ins("keyEsc", {}, <<>>, 238),
       State("glClear", 244),
       Use({H("shader_program")}, "glUseProgram", 247),
       State("glActiveTexture", 250),
       Use({H("texture")}, "glBindTexture", 251),
       Uniform("shader_program", 254),
       Use({H("vao")}, "glBindVertexArray", 257),
       Ins("swap", {}, <<>>, 271),
       Draw({H("vao")}, 260),
       GetErr("running", 263) >>

Frame_3texture ==
    << While("running", 235),
       Ins("keyEsc", {}, <<>>, 238),
       State("glClear", 244),
       Use({H("shader_program")}, "glUseProgram", 247),
       State("glActiveTexture", 250),
       Use({H("texture")}, "glBindTexture", 251),
       Uniform("shader_program", 254),
       Use({H("vao")}, "glBindVertexArray", 257),
       Draw({H("vao")}, 260),
       GetErr("running", 263),
       Ins("swap", {}, <<>>, 271) >>

Teardown_3texture ==
    << Ins("terminate", {}, <<>>, 274),
       Return("0", 275) >>

(***************************************************************************)
(* 05fbo_fxaa.cpp                                                          *)
(***************************************************************************)
Setup_05fbo_fxaa ==
    Glfw3Prologue(55)
    \o << Compile("vertex_shader", Both, 113),
          Compile("fragment_shader", Both, 125) >>
    \o Program("shader_program", <<"vertex_shader", "fragment_shader">>, 137, 144)
    \o << UniformLoc("shader_program", 148),
          Gen({H("vao")}, 155),
          Use({H("vao")}, "glBindVertexArray", 156),
          Gen({H("vbo")}, 159),
          Use({H("vbo")}, "glBindBuffer", 160),
          Data({H("vbo")}, "glBufferData", 203),
          State("glVertexAttribPointer", 207),
          Gen({H("ibo")}, 215),
          Use({H("ibo")}, "glBindBuffer(GL_ELEMENT_ARRAY_BUFFER)", 216),
          Data({H("ibo")}, "glBufferData", 240),
          State("glBindVertexArray(0)", 243),
          Compile("post_effect_vertex_shader", <<>>, 471),
          Compile("post_effect_fragment_shader", <<>>, 482) >>
    \o Program("post_effect_shader_program",
               <<"post_effect_vertex_shader", "post_effect_fragment_shader">>, 493, 500)
    \o << UniformLoc("post_effect_shader_program", 504),
          Gen({H("post_effect_vao")}, 510),
          Use({H("post_effect_vao")}, "glBindVertexArray", 511),
          Gen({H("post_effect_vbo")}, 514),
          Use({H("post_effect_vbo")}, "glBindBuffer", 515),
          Data({H("post_effect_vbo")}, "glBufferData", 527),
          State("glVertexAttribPointer", 531),
          Gen({H("post_effect_ibo")}, 539),
          Use({H("post_effect_ibo")}, "glBindBuffer(GL_ELEMENT_ARRAY_BUFFER)", 540),
          Data({H("post_effect_ibo")}, "glBufferData", 548),
          State("glBindVertexArray(0)", 551),
          Gen({H("texture")}, 557),
          Use({H("texture")}, "glBindTexture", 560),
          State("glTexParameteri", 563),
          Data({H("texture")}, "glTexImage2D", 569),
          Gen({H("rbf")}, 576),
          Use({H("rbf")}, "glBindRenderbuffer", 578),
          Data({H("rbf")}, "glRenderbufferStorage", 579),
          Gen({H("fbo")}, 585),
          Use({H("fbo")}, "glBindFramebuffer", 587),
          Use({H("fbo"), H("texture")}, "glFramebufferTexture2D", 589),
          Use({H("fbo"), H("rbf")}, "glFramebufferRenderbuffer", 590) >>

\* the loop body without the glEnable(GL_DEPTH_TEST) of line 608
Frame_05fbo_fxaa_mutant ==
    [fxaa \in BOOLEAN |->
        << While("shouldClose", 595),
           Ins("pollEvents", {}, <<>>, 596),
           Ins("keySpace", {}, <<>>, 602) >>
        \o (IF fxaa THEN <<Use({H("fbo")}, "glBindFramebuffer", 612)>>
                    ELSE <<State("glBindFramebuffer(0)", 614)>>)
        \o << State("glClear", 617),
              Use({H("shader_program")}, "glUseProgram", 620),
              Uniform("shader_program", 634),
              Use({H("vao")}, "glBindVertexArray", 637),
              Draw({H("vao")}, 640) >>
        \o (IF fxaa THEN << State("glBindFramebuffer(0)", 646),
                            State("glDisable(GL_DEPTH_TEST)", 649),
                            Use({H("post_effect_shader_program")}, "glUseProgram", 652),
                            State("glActiveTexture", 655),
                            Use({H("texture")}, "glBindTexture", 656),
                            Uniform("post_effect_shader_program", 659),
                            Use({H("post_effect_vao")}, "glBindVertexArray", 662),
                            Draw({H("post_effect_vao")}, 665) >>
                    ELSE <<>>)
        \o << GetErr("break", 669),
              Ins("swap", {}, <<>>, 676) >>]

\* the loop body for each value of fxaa after the toggle of lines 602-606
Frame_05fbo_fxaa ==
    [fxaa \in BOOLEAN |->
        << While("shouldClose", 595),
           Ins("pollEvents", {}, <<>>, 596),
           Ins("keySpace", {}, <<>>, 602),
           State("glEnable(GL_DEPTH_TEST)", 608) >>
        \o (IF fxaa THEN <<Use({H("fbo")}, "glBindFramebuffer", 612)>>
                    ELSE <<State("glBindFramebuffer(0)", 614)>>)
        \o << State("glClear", 617),
              Use({H("shader_program")}, "glUseProgram", 620),
              Uniform("shader_program", 634),
              Use({H("vao")}, "glBindVertexArray", 637),
              Draw({H("vao")}, 640) >>
        \o (IF fxaa THEN << State("glBindFramebuffer(0)", 646),
                            State("glDisable(GL_DEPTH_TEST)", 649),
                            Use({H("post_effect_shader_program")}, "glUseProgram", 652),
                            State("glActiveTexture", 655),
                            Use({H("texture")}, "glBindTexture", 656),
                            Uniform("post_effect_shader_program", 659),
                            Use({H("post_effect_vao")}, "glBindVertexArray", 662),
                            Draw({H("post_effect_vao")}, 665) >>
                    ELSE <<>>)
        \o << GetErr("break", 669),
              Ins("swap", {}, <<>>, 676) >>]

Teardown_05fbo_fxaa ==
    << Delete({H("vao")}, 681),
       Delete({H("vbo")}, 682),
       Delete({H("ibo")}, 683),
       Detach("shader_program", "vertex_shader", 685),
       Detach("shader_program", "fragment_shader", 686),
       Delete({H("vertex_shader")}, 687),
       Delete({H("fragment_shader")}, 688),
       Delete({H("shader_program")}, 689),
       Delete({H("post_effect_vao")}, 691),
       Delete({H("post_effect_vbo")}, 692),
       Delete({H("post_effect_ibo")}, 693),
       Detach("post_effect_shader_program", "post_effect_vertex_shader", 695),
       Detach("post_effect_shader_program", "post_effect_fragment_shader", 696),
       Delete({H("post_effect_vertex_shader")}, 697),
       Delete({H("post_effect_fragment_shader")}, 698),
       Delete({H("post_effect_shader_program")}, 699),
       Ins("closeWindow", {}, <<>>, 701),
       Ins("terminate", {}, <<>>, 702),
       Return("0", 703) >>

(***************************************************************************)
(* 07geometry_shader_blending.cpp                                          *)
(***************************************************************************)
Setup_07geometry_shader_blending ==
    Glfw3Prologue(58)
    \o << Compile("vertex_shader", Both, 135),
          Compile("geometry_shader", Both, 147),
          Compile("fragment_shader", Both, 159) >>
    \o Program("shader_program",
               <<"vertex_shader", "geometry_shader", "fragment_shader">>, 171, 179)
    \o << UniformLoc("shader_program", 183),
          Gen({H("vao")}, 190),
          Use({H("vao")}, "glBindVertexArray", 191),
          Gen({H("vbo")}, 194),
          Use({H("vbo")}, "glBindBuffer", 195),
          Host("vertexData", 200),
          Data({H("vbo")}, "glBufferData", 221),
          State("glVertexAttribPointer", 225),
          State("glBlendFunc", 229) >>

\* the frame with the error poll moved in front of the draw call
Frame_07geometry_shader_blending_mutant ==
    << While("shouldClose", 236),
       Ins("pollEvents", {}, <<>>, 237),
       State("glClear", 244),
       Use({H("shader_program")}, "glUseProgram", 247),
       Uniform("shader_program", 261),
       Uniform("shader_program", 262),
       Use({H("vao")}, "glBindVertexArray", 265),
       GetErr("break", 271),
       Draw({H("vao")}, 268),
       Ins("swap", {}, <<>>, 278) >>

Frame_07geometry_shader_blending ==
    << While("shouldClose", 236),
       Ins("pollEvents", {}, <<>>, 237),
       State("glClear", 244),
       Use({H("shader_program")}, "glUseProgram", 247),
       Uniform("shader_program", 261),
       Uniform("shader_program", 262),
       Use({H("vao")}, "glBindVertexArray", 265),
       Draw({H("vao")}, 268),
       GetErr("break", 271),
       Ins("swap", {}, <<>>, 278) >>

Teardown_07geometry_shader_blending ==
    << Delete({H("vao")}, 283),
       Delete({H("vbo")}, 284),
       Detach("shader_program", "vertex_shader", 286),
       Detach("shader_program", "geometry_shader", 287),
       Detach("shader_program", "fragment_shader", 288),
       Delete({H("vertex_shader")}, 289),
       Delete({H("geometry_shader")}, 290),
       Delete({H("fragment_shader")}, 291),
       Delete({H("shader_program")}, 292),
       Ins("closeWindow", {}, <<>>, 294),
       Ins("terminate", {}, <<>>, 295),
       Return("0", 296) >>

(***************************************************************************)
(* 08map_buffer.cpp                                                        *)
(***************************************************************************)
buffercount_08 == 3

Setup_08map_buffer ==
    Glfw3Prologue(60)
    \o << Compile("vertex_shader", Both, 137),
          Compile("geometry_shader", Both, 149),
          Compile("fragment_shader", Both, 161) >>
    \o Program("shader_program",
               <<"vertex_shader", "geometry_shader", "fragment_shader">>, 173, 181)
    \o << UniformLoc("shader_program", 185),
          Host("vertexData", 191),
          Gen({A("vao", k) : k \in 0..buffercount_08 - 1}, 204),
          Gen({A("vbo", k) : k \in 0..buffercount_08 - 1}, 205) >>
    \o Flatten([k \in 1..buffercount_08 |->
          << Use({A("vao", k - 1)}, "glBindVertexArray", 208),
             Use({A("vbo", k - 1)}, "glBindBuffer", 210),
             Data({A("vbo", k - 1)}, "glBufferData", 213),
             State("glVertexAttribPointer", 216) >>])
    \o << State("glBlendFunc", 221) >>

\* the loop body, uploading to the buffer that the same iteration draws
Frame_08map_buffer_mutant ==
    [current_buffer \in 0..buffercount_08 - 1 |->
        << While("shouldClose", 245),
           Ins("pollEvents", {}, <<>>, 246),
           Host("update physics", 252),
           Use({A("vbo", current_buffer)},
               "glBindBuffer", 276),
           Data({A("vbo", current_buffer)},
                "glBufferData(0)", 279),
           Use({A("vbo", current_buffer)},
               "glMapBufferRange", 284),
           Host("std::copy", 291),
           Use({A("vbo", current_buffer)},
               "glUnmapBuffer", 294),
           State("glClear", 298),
           Use({H("shader_program")}, "glUseProgram", 301),
           Uniform("shader_program", 314),
           Uniform("shader_program", 315),
           Use({A("vao", current_buffer)}, "glBindVertexArray", 318),
           Draw({A("vao", current_buffer)}, 321),
           GetErr("break", 324),
           Ins("swap", {}, <<>>, 331),
           Ins("advance", {}, <<>>, 334) >>]

\* the loop body for each value of current_buffer
Frame_08map_buffer ==
    [current_buffer \in 0..buffercount_08 - 1 |->
        << While("shouldClose", 245),
           Ins("pollEvents", {}, <<>>, 246),
           Host("update physics", 252),
           Use({A("vbo", (current_buffer + buffercount_08 - 1) % buffercount_08)},
               "glBindBuffer", 276),
           Data({A("vbo", (current_buffer + buffercount_08 - 1) % buffercount_08)},
                "glBufferData(0)", 279),
           Use({A("vbo", (current_buffer + buffercount_08 - 1) % buffercount_08)},
               "glMapBufferRange", 284),
           Host("std::copy", 291),
           Use({A("vbo", (current_buffer + buffercount_08 - 1) % buffercount_08)},
               "glUnmapBuffer", 294),
           State("glClear", 298),
           Use({H("shader_program")}, "glUseProgram", 301),
           Uniform("shader_program", 314),
           Uniform("shader_program", 315),
           Use({A("vao", current_buffer)}, "glBindVertexArray", 318),
           Draw({A("vao", current_buffer)}, 321),
           GetErr("break", 324),
           Ins("swap", {}, <<>>, 331),
           Ins("advance", {}, <<>>, 334) >>]

Teardown_08map_buffer ==
    << Delete({A("vao", k) : k \in 0..buffercount_08 - 1}, 339),
       Delete({A("vbo", k) : k \in 0..buffercount_08 - 1}, 340),
       Detach("shader_program", "vertex_shader", 342),
       Detach("shader_program", "geometry_shader", 343),
       Detach("shader_program", "fragment_shader", 344),
       Delete({H("vertex_shader")}, 345),
       Delete({H("geometry_shader")}, 346),
       Delete({H("fragment_shader")}, 347),
       Delete({H("shader_program")}, 348),
       Ins("closeWindow", {}, <<>>, 350),
       Ins("terminate", {}, <<>>, 351),
       Return("0", 352) >>

(***************************************************************************)
(* 09transform_feedback.cpp                                                *)
(***************************************************************************)
buffercount_09 == 2

Setup_09transform_feedback ==
    Glfw3Prologue(59)
    \o << Compile("vertex_shader", Both, 136),
          Compile("geometry_shader", Both, 148),
          Compile("fragment_shader", Both, 160) >>
    \o Program("shader_program",
               <<"vertex_shader", "geometry_shader", "fragment_shader">>, 172, 180)
    \o << UniformLoc("shader_program", 184),
          Compile("transform_vertex_shader", Both, 232),
          Ins("createProgram", {H("transform_shader_program")}, <<>>, 244),
          Ins("attach", {H("transform_shader_program"), H("transform_vertex_shader")},
              <<"transform_shader_program", "transform_vertex_shader">>, 247),
          Use({H("transform_shader_program")}, "glTransformFeedbackVaryings", 251),
          Ins("link", {H("transform_shader_program")}, <<>>, 254),
          UniformLoc("transform_shader_program", 257),
          Host("vertexData", 267),
          Gen({A("vao", k) : k \in 0..buffercount_09 - 1}, 284),
          Gen({A("vbo", k) : k \in 0..buffercount_09 - 1}, 285) >>
    \o Flatten([k \in 1..buffercount_09 |->
          << Use({A("vao", k - 1)}, "glBindVertexArray", 288),
             Use({A("vbo", k - 1)}, "glBindBuffer", 290),
             Data({A("vbo", k - 1)}, "glBufferData", 293),
             State("glVertexAttribPointer", 296) >>])
    \o << State("glBindVertexArray(0)", 304),
          State("glBlendFunc", 307) >>

\* the loop body, feeding back into the buffer the vertices are read from
Frame_09transform_feedback_mutant ==
    [current_buffer \in 0..buffercount_09 - 1 |->
        << While("shouldClose", 331),
           Ins("pollEvents", {}, <<>>, 332),
           Use({H("transform_shader_program")}, "glUseProgram", 340),
           Uniform("transform_shader_program", 343),
           Use({A("vao", (current_buffer + 1) % buffercount_09)}, "glBindVertexArray", 351),
           Use({A("vbo", (current_buffer + 1) % buffercount_09)}, "glBindBufferBase", 354),
           State("glEnable(GL_RASTERIZER_DISCARD)", 356),
           State("glBeginTransformFeedback", 359),
           Draw({A("vao", (current_buffer + 1) % buffercount_09)}, 360),
           State("glEndTransformFeedback", 361),
           State("glDisable(GL_RASTERIZER_DISCARD)", 363),
           State("glClear", 366),
           Use({H("shader_program")}, "glUseProgram", 369),
           Uniform("shader_program", 382),
           Uniform("shader_program", 383),
           Use({A("vao", current_buffer)}, "glBindVertexArray", 386),
           Draw({A("vao", current_buffer)}, 389),
           GetErr("break", 392),
           Ins("swap", {}, <<>>, 399),
           Ins("advance", {}, <<>>, 402) >>]

\* the loop body for each value of current_buffer
Frame_09transform_feedback ==
    [current_buffer \in 0..buffercount_09 - 1 |->
        << While("shouldClose", 331),
           Ins("pollEvents", {}, <<>>, 332),
           Use({H("transform_shader_program")}, "glUseProgram", 340),
           Uniform("transform_shader_program", 343),
           Use({A("vao", (current_buffer + 1) % buffercount_09)}, "glBindVertexArray", 351),
           Use({A("vbo", current_buffer)}, "glBindBufferBase", 354),
           State("glEnable(GL_RASTERIZER_DISCARD)", 356),
           State("glBeginTransformFeedback", 359),
           Draw({A("vao", (current_buffer + 1) % buffercount_09)}, 360),
           State("glEndTransformFeedback", 361),
           State("glDisable(GL_RASTERIZER_DISCARD)", 363),
           State("glClear", 366),
           Use({H("shader_program")}, "glUseProgram", 369),
           Uniform("shader_program", 382),
           Uniform("shader_program", 383),
           Use({A("vao", current_buffer)}, "glBindVertexArray", 386),
           Draw({A("vao", current_buffer)}, 389),
           GetErr("break", 392),
           Ins("swap", {}, <<>>, 399),
           Ins("advance", {}, <<>>, 402) >>]

Teardown_09transform_feedback ==
    << Delete({A("vao", k) : k \in 0..buffercount_09 - 1}, 407),
       Delete({A("vbo", k) : k \in 0..buffercount_09 - 1}, 408),
       Detach("shader_program", "vertex_shader", 410),
       Detach("shader_program", "geometry_shader", 411),
       Detach("shader_program", "fragment_shader", 412),
       Delete({H("vertex_shader")}, 413),
       Delete({H("geometry_shader")}, 414),
       Delete({H("fragment_shader")}, 415),
       Delete({H("shader_program")}, 416),
       Detach("transform_shader_program", "transform_vertex_shader", 418),
       Delete({H("transform_vertex_shader")}, 419),
       Delete({H("transform_shader_program")}, 420),
       Ins("closeWindow", {}, <<>>, 422),
       Ins("terminate", {}, <<>>, 423),
       Return("0", 424) >>

(***************************************************************************)
(* 10queries_conditional_render.cpp                                        *)
(***************************************************************************)
chunksize == 32
querycount == 5
ChunkIds == 0..NumChunks - 1

\* the body of the chunk extraction loop (lines 247-444) for chunk c
ChunkSetup(c) ==
    << Gen({A("chunk.vao", c)}, 256),
       Use({A("chunk.vao", c)}, "glBindVertexArray", 257),
       Gen({A("chunk.vbo", c)}, 260),
       Use({A("chunk.vbo", c)}, "glBindBuffer", 261),
       Data({A("chunk.vbo", c)}, "glBufferData", 338),
       State("glVertexAttribPointer", 341),
       Gen({A("chunk.ibo", c)}, 348),
       Use({A("chunk.ibo", c)}, "glBindBuffer(GL_ELEMENT_ARRAY_BUFFER)", 349),
       Data({A("chunk.ibo", c)}, "glBufferData", 363),
       Gen({A("chunk.bounding_vao", c)}, 367),
       Use({A("chunk.bounding_vao", c)}, "glBindVertexArray", 368),
       Gen({A("chunk.bounding_vbo", c)}, 371),
       Use({A("chunk.bounding_vbo", c)}, "glBindBuffer", 372),
       Data({A("chunk.bounding_vbo", c)}, "glBufferData", 415),
       State("glVertexAttribPointer", 419),
       Gen({A("chunk.bounding_ibo", c)}, 423),
       Use({A("chunk.bounding_ibo", c)}, "glBindBuffer(GL_ELEMENT_ARRAY_BUFFER)", 424),
       Data({A("chunk.bounding_ibo", c)}, "glBufferData", 432),
       Gen({A("chunk.query", c)}, 435),
       Host("chunks.push_back", 441) >>

Setup_10queries_conditional_render ==
    Glfw3Prologue(89)
    \o << Compile("vertex_shader", Both, 146),
          Compile("fragment_shader", Both, 158) >>
    \o Program("shader_program", <<"vertex_shader", "fragment_shader">>, 170, 177)
    \o << UniformLoc("shader_program", 181),
          Compile("query_vertex_shader", Both, 202),
          Compile("query_fragment_shader", Both, 214) >>
    \o Program("query_shader_program",
               <<"query_vertex_shader", "query_fragment_shader">>, 226, 233)
    \o << UniformLoc("query_shader_program", 237),
          Host("std::cout", 245) >>
    \o Flatten([k \in 1..NumChunks |-> ChunkSetup(k - 1)])
    \o << Gen({A("queries", k) : k \in 0..querycount - 1}, 449),
          State("glEnable(GL_DEPTH_TEST)", 452),
          Host("glfwSetInputMode", 463) >>

\* the loop body with every conditional render on the query of chunks[0]
Frame_10queries_conditional_render_mutant ==
    [current_query \in 0..querycount - 1 |->
        << While("shouldClose", 468),
           Ins("pollEvents", {}, <<>>, 469),
           Ins("camera", {}, <<>>, 472),
           Ins("keySpace", {}, <<>>, 516),
           Use({H("query_shader_program")}, "glUseProgram", 527),
           Uniform("query_shader_program", 528),
           Use({H("shader_program")}, "glUseProgram", 529),
           Uniform("shader_program", 530),
           State("glClearColor", 533),
           State("glClear", 536),
           Ins("sort", {}, <<>>, 539),
           Ins("beginQuery", {A("queries", current_query)}, <<"GL_TIME_ELAPSED">>, 545),
           Ins("peelWhile", {}, <<609>>, 548),
           Ins("ifOcclusionCull", {}, <<579>>, 550),
           State("glDisable(GL_CULL_FACE)", 552),
           State("glDepthMask(GL_FALSE)", 555),
           Use({H("query_shader_program")}, "glUseProgram", 557),
           Ins("chunkFor", {}, <<575>>, 558),
           Ins("beginQuery", {AtJ("chunk.query")}, <<"GL_ANY_SAMPLES_PASSED">>, 566),
           Use({AtJ("chunk.bounding_vao")}, "glBindVertexArray", 569),
           Draw({AtJ("chunk.bounding_vao")}, 570),
           Ins("endQuery", {}, <<"GL_ANY_SAMPLES_PASSED">>, 573),
           Ins("chunkNext", {}, <<558>>, 574),
           Ins("resetJ", {}, <<>>, 575),
           State("glEnable(GL_CULL_FACE)", 579),
           State("glDepthMask(GL_TRUE)", 582),
           Use({H("shader_program")}, "glUseProgram", 584),
           Ins("chunkFor", {}, <<604>>, 585),
           Ins("beginCond", {AtI("chunk.query", 0)}, <<>>, 594),
           Use({AtJ("chunk.vao")}, "glBindVertexArray", 597),
           Draw({AtJ("chunk.vao")}, 598),
           Ins("endCond", {}, <<>>, 602),
           Ins("chunkNext", {}, <<585>>, 603),
           Ins("peelNext", {}, <<548>>, 604),
           Ins("endQuery", {}, <<"GL_TIME_ELAPSED">>, 609),
           Ins("isQuery", {A("queries", (current_query + 1) % querycount)}, <<618>>, 612),
           Ins("queryResult", {A("queries", (current_query + 1) % querycount)}, <<>>, 614),
           Ins("advance", {}, <<>>, 618),
           GetErr("break", 621),
           Ins("swap", {}, <<>>, 628) >>]

\* the loop body for each value of current_query; the instructions of the
\* peel loop carry the line they jump to in arg
Frame_10queries_conditional_render ==
    [current_query \in 0..querycount - 1 |->
        << While("shouldClose", 468),
           Ins("pollEvents", {}, <<>>, 469),
           Ins("camera", {}, <<>>, 472),
           Ins("keySpace", {}, <<>>, 516),
           Use({H("query_shader_program")}, "glUseProgram", 527),
           Uniform("query_shader_program", 528),
           Use({H("shader_program")}, "glUseProgram", 529),
           Uniform("shader_program", 530),
           State("glClearColor", 533),
           State("glClear", 536),
           Ins("sort", {}, <<>>, 539),
           Ins("beginQuery", {A("queries", current_query)}, <<"GL_TIME_ELAPSED">>, 545),
           Ins("peelWhile", {}, <<609>>, 548),
           Ins("ifOcclusionCull", {}, <<579>>, 550),
           State("glDisable(GL_CULL_FACE)", 552),
           State("glDepthMask(GL_FALSE)", 555),
           Use({H("query_shader_program")}, "glUseProgram", 557),
           Ins("chunkFor", {}, <<575>>, 558),
           Ins("beginQuery", {AtJ("chunk.query")}, <<"GL_ANY_SAMPLES_PASSED">>, 566),
           Use({AtJ("chunk.bounding_vao")}, "glBindVertexArray", 569),
           Draw({AtJ("chunk.bounding_vao")}, 570),
           Ins("endQuery", {}, <<"GL_ANY_SAMPLES_PASSED">>, 573),
           Ins("chunkNext", {}, <<558>>, 574),
           Ins("resetJ", {}, <<>>, 575),
           State("glEnable(GL_CULL_FACE)", 579),
           State("glDepthMask(GL_TRUE)", 582),
           Use({H("shader_program")}, "glUseProgram", 584),
           Ins("chunkFor", {}, <<604>>, 585),
           Ins("beginCond", {AtJ("chunk.query")}, <<>>, 594),
           Use({AtJ("chunk.vao")}, "glBindVertexArray", 597),
           Draw({AtJ("chunk.vao")}, 598),
           Ins("endCond", {}, <<>>, 602),
           Ins("chunkNext", {}, <<585>>, 603),
           Ins("peelNext", {}, <<548>>, 604),
           Ins("endQuery", {}, <<"GL_TIME_ELAPSED">>, 609),
           Ins("isQuery", {A("queries", (current_query + 1) % querycount)}, <<618>>, 612),
           Ins("queryResult", {A("queries", (current_query + 1) % querycount)}, <<>>, 614),
           Ins("advance", {}, <<>>, 618),
           GetErr("break", 621),
           Ins("swap", {}, <<>>, 628) >>]

Teardown_10queries_conditional_render ==
    Flatten([k \in 1..NumChunks |->
        << Delete({AtI("chunk.vao", k - 1)}, 634),
           Delete({AtI("chunk.vbo", k - 1)}, 635),
           Delete({AtI("chunk.ibo", k - 1)}, 636),
           Delete({AtI("chunk.bounding_vao", k - 1)}, 637),
           Delete({AtI("chunk.bounding_vbo", k - 1)}, 638),
           Delete({AtI("chunk.bounding_ibo", k - 1)}, 639),
           Delete({AtI("chunk.query", k - 1)}, 640) >>])
    \o << Delete({A("queries", k) : k \in 0..querycount - 1}, 643),
          Detach("shader_program", "vertex_shader", 645),
          Detach("shader_program", "fragment_shader", 646),
          Delete({H("vertex_shader")}, 647),
          Delete({H("fragment_shader")}, 648),
          Delete({H("shader_program")}, 649),
          Detach("query_shader_program", "query_vertex_shader", 651),
          Detach("query_shader_program", "query_fragment_shader", 652),
          Delete({H("query_vertex_shader")}, 653),
          Delete({H("query_fragment_shader")}, 654),
          Delete({H("query_shader_program")}, 655),
          Ins("closeWindow", {}, <<>>, 657),
          Ins("terminate", {}, <<>>, 658),
          Return("0", 659) >>

(***************************************************************************)
(* 11tesselation.cpp                                                       *)
(***************************************************************************)
Setup_11tesselation ==
    Glfw3Prologue(63)
    \o << Gen({H("vao")}, 91),
          Use({H("vao")}, "glBindVertexArray", 92),
          Compile("vertex_shader", Both, 182),
          Compile("tess_control_shader", Both, 194),
          Compile("tess_eval_shader", Both, 206),
          Compile("fragment_shader", Both, 218) >>
    \o Program("shader_program",
               <<"vertex_shader", "tess_control_shader", "tess_eval_shader",
                 "fragment_shader">>, 230, 239)
    \o << UniformLoc("shader_program", 242),
          Host("displacementData", 250),
          Gen({H("displacement")}, 270),
          Use({H("displacement")}, "glBindTexture", 273),
          State("glTexParameteri", 276),
          Data({H("displacement")}, "glTexImage2D", 282),
          Host("position", 288),
          State("glEnable(GL_DEPTH_TEST)", 292),
          Host("glfwSetInputMode", 295) >>

\* the loop body for each value of tessellation after the toggle of line 356
Frame_11tesselation ==
    [tessellation \in BOOLEAN |->
        << While("shouldClose", 300),
           Ins("pollEvents", {}, <<>>, 301),
           Host("camera", 304),
           State("glPolygonMode", 348),
           Ins("keySpace", {}, <<>>, 356),
           State("glClear", 367),
           State("glActiveTexture", 369),
           Use({H("displacement")}, "glBindTexture", 370),
           Use({H("shader_program")}, "glUseProgram", 373),
           Uniform("shader_program", 374),
           Uniform("shader_program", IF tessellation THEN 380 ELSE 382),
           Uniform("shader_program", 386),
           Draw({H("vao")}, 389),
           GetErr("break", 392),
           Ins("swap", {}, <<>>, 399) >>]

Teardown_11tesselation ==
    << Delete({H("vao")}, 404),
       Detach("shader_program", "vertex_shader", 405),
       Detach("shader_program", "tess_control_shader", 406),
       Detach("shader_program", "tess_eval_shader", 407),
       Detach("shader_program", "fragment_shader", 408),
       Delete({H("vertex_shader")}, 409),
       Delete({H("tess_control_shader")}, 410),
       Delete({H("tess_eval_shader")}, 411),
       Delete({H("fragment_shader")}, 412),
       Delete({H("shader_program")}, 413),
       Ins("closeWindow", {}, <<>>, 415),
       Ins("terminate", {}, <<>>, 416),
       Return("0", 417) >>

(***************************************************************************)
(* 12shader_image_load_store.cpp                                           *)
(***************************************************************************)
substeps == 5

Setup_12shader_image_load_store ==
    << Unchecked("glfwInit", 74),
       Host("glfwOpenWindowHint", 77),
       Unchecked("openWindow", 82),
       Host("glfwSwapInterval", 84),
       Host("glfwSetWindowCloseCallback", 87),
       Ins("loaderInit", {}, <<"terminate">>, 90),
       Ins("extCheck", {}, <<"terminate">>, 101),
       Compile("vertex_shader", <<>>, 182),
       Compile("fragment1_shader", <<>>, 193),
       Compile("fragment2_shader", <<>>, 204) >>
    \o Program("shader1_program", <<"vertex_shader", "fragment1_shader">>, 215, 222)
    \o << UniformLoc("shader1_program", 226) >>
    \o Program("shader2_program", <<"vertex_shader", "fragment2_shader">>, 232, 239)
    \o << UniformLoc("shader2_program", 243),
          Gen({H("vao")}, 253),
          Use({H("vao")}, "glBindVertexArray", 254),
          Gen({H("vbo")}, 257),
          Use({H("vbo")}, "glBindBuffer", 258),
          Data({H("vbo")}, "glBufferData", 270),
          State("glVertexAttribPointer", 274),
          Gen({H("ibo")}, 282),
          Use({H("ibo")}, "glBindBuffer(GL_ELEMENT_ARRAY_BUFFER)", 283),
          Data({H("ibo")}, "glBufferData", 291),
          State("glBindVertexArray(0)", 294),
          Gen({H("texture")}, 300),
          Use({H("texture")}, "glBindTexture", 303),
          Host("image", 306),
          State("glTexParameteri", 319),
          Data({H("texture")}, "glTexImage2D", 325),
          Ins("setRunning", {}, <<>>, 329) >>

Frame_12shader_image_load_store ==
    << While("running", 330),
       Host("t += dt", 332),
       Ins("keyEsc", {}, <<>>, 338),
       State("glClear", 344),
       Use({H("texture")}, "glBindImageTextureEXT", 346),
       Use({H("vao")}, "glBindVertexArray", 349),
       Use({H("shader1_program")}, "glUseProgram", 353),
       Uniform("shader1_program", 355),
       Use({H("shader2_program")}, "glUseProgram", 359),
       Uniform("shader2_program", 361),
       State("glColorMask(GL_FALSE)", 365) >>
    \o Repeat(<< Use({H("shader1_program")}, "glUseProgram", 369),
                 Draw({H("vao"), H("texture")}, 371),
                 Use({H("shader2_program")}, "glUseProgram", 373),
                 Uniform("shader2_program", 374),
                 Draw({H("vao"), H("texture")}, 376) >>, substeps - 1)
    \o << Use({H("shader1_program")}, "glUseProgram", 380),
          Draw({H("vao"), H("texture")}, 382),
          State("glColorMask(GL_TRUE)", 384),
          Use({H("shader2_program")}, "glUseProgram", 386),
          Uniform("shader2_program", 387),
          Draw({H("vao"), H("texture")}, 389),
          GetErr("running", 392),
          Ins("swap", {}, <<>>, 400) >>

\* the teardown with the shared vertex shader deleted once per program
Teardown_12shader_image_load_store_mutant ==
    << Delete({H("texture")}, 405),
       Delete({H("vao")}, 407),
       Delete({H("vbo")}, 408),
       Delete({H("ibo")}, 409),
       Detach("shader1_program", "vertex_shader", 411),
       Detach("shader1_program", "fragment1_shader", 412),
       Detach("shader2_program", "vertex_shader", 413),
       Detach("shader2_program", "fragment2_shader", 414),
       Delete({H("vertex_shader")}, 415),
       Delete({H("fragment1_shader")}, 416),
       Delete({H("shader1_program")}, 417),
       Delete({H("vertex_shader")}, 418),
       Delete({H("fragment2_shader")}, 418),
       Delete({H("shader2_program")}, 419),
       Ins("terminate", {}, <<>>, 421),
       Return("0", 422) >>

Teardown_12shader_image_load_store ==
    << Delete({H("texture")}, 405),
       Delete({H("vao")}, 407),
       Delete({H("vbo")}, 408),
       Delete({H("ibo")}, 409),
       Detach("shader1_program", "vertex_shader", 411),
       Detach("shader1_program", "fragment1_shader", 412),
       Detach("shader2_program", "vertex_shader", 413),
       Detach("shader2_program", "fragment2_shader", 414),
       Delete({H("vertex_shader")}, 415),
       Delete({H("fragment1_shader")}, 416),
       Delete({H("shader1_program")}, 417),
       Delete({H("fragment2_shader")}, 418),
       Delete({H("shader2_program")}, 419),
       Ins("terminate", {}, <<>>, 421),
       Return("0", 422) >>

(***************************************************************************)
(* 13compute_shader_nbody.cpp                                              *)
(***************************************************************************)
Setup_13compute_shader_nbody ==
    Glfw3Prologue(59)
    \o << Compile("vertex_shader", Both, 138),
          Compile("geometry_shader", Both, 150),
          Compile("fragment_shader", Both, 162) >>
    \o Program("shader_program",
               <<"vertex_shader", "geometry_shader", "fragment_shader">>, 174, 182)
    \o << Compile("acceleration_shader", Both, 214) >>
    \o Program("acceleration_program", <<"acceleration_shader">>, 226, 232)
    \o << Compile("tiled_acceleration_shader", Both, 272) >>
    \o Program("tiled_acceleration_program", <<"tiled_acceleration_shader">>, 284, 290)
    \o << Compile("integrate_shader", Both, 314) >>
    \o Program("integrate_program", <<"integrate_shader">>, 326, 332)
    \o << Host("positionData", 336),
          Gen({H("vao")}, 350),
          Use({H("vao")}, "glBindVertexArray", 351),
          Gen({H("positions_vbo")}, 353),
          Gen({H("velocities_vbo")}, 354),
          Use({H("velocities_vbo")}, "glBindBuffer(GL_SHADER_STORAGE_BUFFER)", 356),
          Data({H("velocities_vbo")}, "glBufferData", 357),
          Use({H("positions_vbo")}, "glBindBuffer", 359),
          Data({H("positions_vbo")}, "glBufferData", 362),
          State("glVertexAttribPointer", 365),
          Use({H("positions_vbo"), H("velocities_vbo")}, "glBindBuffersBase", 369),
          Use({H("tiled_acceleration_program")}, "glUseProgram", 375),
          Uniform("tiled_acceleration_program", 376),
          Use({H("acceleration_program")}, "glUseProgram", 378),
          Uniform("acceleration_program", 379),
          Use({H("integrate_program")}, "glUseProgram", 381),
          Uniform("integrate_program", 382),
          State("glBlendFunc", 385),
          Gen({H("query")}, 393) >>

\* the loop body without the glEndQuery of line 417
Frame_13compute_shader_nbody_mutant ==
    [tiled \in BOOLEAN |->
        << While("shouldClose", 398),
           Ins("pollEvents", {}, <<>>, 399),
           Ins("keySpace", {}, <<>>, 402),
           Ins("beginQuery", {H("query")}, <<"GL_TIME_ELAPSED">>, 407) >>
        \o (IF tiled THEN << Use({H("tiled_acceleration_program")}, "glUseProgram", 410),
                             Dispatch("tiled_acceleration_program", 411) >>
                     ELSE << Use({H("acceleration_program")}, "glUseProgram", 413),
                             Dispatch("acceleration_program", 414) >>)
        \o << Use({H("integrate_program")}, "glUseProgram", 419),
              Dispatch("integrate_program", 421),
              State("glClear", 424),
              Use({H("shader_program")}, "glUseProgram", 427),
              Uniform("shader_program", 439),
              Uniform("shader_program", 440),
              Use({H("vao")}, "glBindVertexArray", 443),
              Draw({H("vao")}, 446),
              GetErr("break", 449),
              Ins("swap", {}, <<>>, 456),
              Ins("queryResult", {H("query")}, <<>>, 460) >>]

\* the loop body for each value of tiled after the toggle of line 402
Frame_13compute_shader_nbody ==
    [tiled \in BOOLEAN |->
        << While("shouldClose", 398),
           Ins("pollEvents", {}, <<>>, 399),
           Ins("keySpace", {}, <<>>, 402),
           Ins("beginQuery", {H("query")}, <<"GL_TIME_ELAPSED">>, 407) >>
        \o (IF tiled THEN << Use({H("tiled_acceleration_program")}, "glUseProgram", 410),
                             Dispatch("tiled_acceleration_program", 411) >>
                     ELSE << Use({H("acceleration_program")}, "glUseProgram", 413),
                             Dispatch("acceleration_program", 414) >>)
        \o << Ins("endQuery", {}, <<"GL_TIME_ELAPSED">>, 417),
              Use({H("integrate_program")}, "glUseProgram", 419),
              Dispatch("integrate_program", 421),
              State("glClear", 424),
              Use({H("shader_program")}, "glUseProgram", 427),
              Uniform("shader_program", 439),
              Uniform("shader_program", 440),
              Use({H("vao")}, "glBindVertexArray", 443),
              Draw({H("vao")}, 446),
              GetErr("break", 449),
              Ins("swap", {}, <<>>, 456),
              Ins("queryResult", {H("query")}, <<>>, 460) >>]

Teardown_13compute_shader_nbody ==
    << Delete({H("vao")}, 467),
       Delete({H("positions_vbo")}, 468),
       Delete({H("velocities_vbo")}, 469),
       Detach("shader_program", "vertex_shader", 471),
       Detach("shader_program", "geometry_shader", 472),
       Detach("shader_program", "fragment_shader", 473),
       Delete({H("vertex_shader")}, 474),
       Delete({H("geometry_shader")}, 475),
       Delete({H("fragment_shader")}, 476),
       Delete({H("shader_program")}, 477),
       Detach("acceleration_program", "acceleration_shader", 479),
       Delete({H("acceleration_shader")}, 480),
       Delete({H("acceleration_program")}, 481),
       Ins("closeWindow", {}, <<>>, 483),
       Ins("terminate", {}, <<>>, 484),
       Return("0", 485) >>

(***************************************************************************)
(* experimental/XXcompute_shader.cpp                                       *)
(***************************************************************************)
Setup_XXcompute_shader ==
    << Ins("glfwInit", {}, <<>>, 80),
       Host("glfwOpenWindowHint", 85),
       Ins("openWindow", {}, <<"terminate">>, 90),
       Host("glfwSetWindowCloseCallback", 98),
       Ins("loaderInit", {}, Both, 100),
       Compile("vertex_shader", <<>>, 160),
       Compile("geometry_shader", <<>>, 171),
       Compile("fragment_shader", <<>>, 182) >>
    \o Program("shader_program",
               <<"vertex_shader", "geometry_shader", "fragment_shader">>, 193, 201)
    \o << UniformLoc("shader_program", 205),
          Compile("compute_shader", <<>>, 254) >>
    \o Program("compute_program", <<"compute_shader">>, 265, 271)
    \o << UniformLoc("compute_program", 274),
          Host("vertexData", 282),
          Gen({H("vao")}, 303),
          Gen({H("vbo")}, 304),
          Use({H("vao")}, "glBindVertexArray", 307),
          Use({H("vbo")}, "glBindBuffer", 309),
          Data({H("vbo")}, "glBufferData", 312),
          State("glVertexAttribPointer", 315),
          State("glBindVertexArray(0)", 323),
          Gen({H("buffer_texture")}, 329),
          Use({H("buffer_texture")}, "glBindTexture", 330),
          Use({H("buffer_texture"), H("vbo")}, "glTexBuffer", 333),
          State("glBlendFunc", 338),
          Ins("setRunning", {}, <<>>, 362) >>

\* the frame with the compute pass timed by a query that is read back at once
Frame_XXcompute_shader_mutant ==
    << While("running", 363),
       Ins("keyEsc", {}, <<>>, 369),
       Use({H("compute_program")}, "glUseProgram", 377),
       Uniform("compute_program", 380),
       Use({H("buffer_texture")}, "glBindImageTexture", 387),
       Uniform("compute_program", 388),
       Dispatch("compute_program", 390),
       Ins("queryResult", {}, <<>>, 391),
       State("glClear", 394),
       Use({H("shader_program")}, "glUseProgram", 397),
       Uniform("shader_program", 410),
       Uniform("shader_program", 411),
       Use({H("vao")}, "glBindVertexArray", 414),
       Draw({H("vao")}, 417),
       GetErr("running", 420),
       Ins("swap", {}, <<>>, 428) >>

Frame_XXcompute_shader ==
    << While("running", 363),
       Ins("keyEsc", {}, <<>>, 369),
       Use({H("compute_program")}, "glUseProgram", 377),
       Uniform("compute_program", 380),
       Use({H("buffer_texture")}, "glBindImageTexture", 387),
       Uniform("compute_program", 388),
       Dispatch("compute_program", 390),
       State("glClear", 394),
       Use({H("shader_program")}, "glUseProgram", 397),
       Uniform("shader_program", 410),
       Uniform("shader_program", 411),
       Use({H("vao")}, "glBindVertexArray", 414),
       Draw({H("vao")}, 417),
       GetErr("running", 420),
       Ins("swap", {}, <<>>, 428) >>

Teardown_XXcompute_shader ==
    << Delete({H("vao")}, 433),
       Delete({H("vbo")}, 434),
       Delete({H("buffer_texture")}, 435),
       Detach("shader_program", "vertex_shader", 437),
       Detach("shader_program", "geometry_shader", 438),
       Detach("shader_program", "fragment_shader", 439),
       Delete({H("vertex_shader")}, 440),
       Delete({H("geometry_shader")}, 441),
       Delete({H("fragment_shader")}, 442),
       Delete({H("shader_program")}, 443),
       Detach("compute_program", "compute_shader", 445),
       Delete({H("compute_shader")}, 446),
       Delete({H("compute_program")}, 447),
       Ins("closeWindow", {}, <<>>, 449),
       Ins("terminate", {}, <<>>, 450),
       Return("0", 451) >>

(***************************************************************************)
(* experimental/XXcompute_shader_nbody.cpp                                 *)
(***************************************************************************)
\* iterations of the tile loop of lines 465-469 explored (tiles in the source)
NumTiles == 2

Setup_XXcompute_shader_nbody ==
    << Ins("glfwInit", {}, <<>>, 74),
       Host("glfwOpenWindowHint", 79),
       Ins("openWindow", {}, <<"terminate">>, 84),
       Host("glfwSetWindowCloseCallback", 92),
       Host("glfwSwapInterval", 94),
       Ins("loaderInit", {}, Both, 96),
       Compile("vertex_shader", <<>>, 156),
       Compile("geometry_shader", <<>>, 167),
       Compile("fragment_shader", <<>>, 178) >>
    \o Program("shader_program",
               <<"vertex_shader", "geometry_shader", "fragment_shader">>, 189, 197)
    \o << Compile("acceleration_shader", <<>>, 229) >>
    \o Program("acceleration_program", <<"acceleration_shader">>, 240, 246)
    \o << Compile("tiled_acceleration_shader", <<>>, 281) >>
    \o Program("tiled_acceleration_program", <<"tiled_acceleration_shader">>, 292, 298)
    \o << Compile("integrate_shader", <<>>, 323) >>
    \o Program("integrate_program", <<"integrate_shader">>, 334, 340)
    \o << Host("positionData", 344),
          Gen({H("vao")}, 364),
          Gen({H("positions_vbo")}, 365),
          Use({H("vao")}, "glBindVertexArray", 368),
          Use({H("positions_vbo")}, "glBindBuffer", 370),
          Data({H("positions_vbo")}, "glBufferData", 373),
          State("glVertexAttribPointer", 376),
          State("glBindVertexArray(0)", 380),
          Gen({H("velocities_vbo")}, 384),
          Use({H("velocities_vbo")}, "glBindBuffer(GL_TEXTURE_BUFFER)", 385),
          Data({H("velocities_vbo")}, "glBufferData", 386),
          Gen({H("positions_texture")}, 394),
          Use({H("positions_texture")}, "glBindTexture", 395),
          Use({H("positions_texture"), H("positions_vbo")}, "glTexBuffer", 396),
          Gen({H("velocities_texture")}, 398),
          Use({H("velocities_texture")}, "glBindTexture", 399),
          Use({H("velocities_texture"), H("velocities_vbo")}, "glTexBuffer", 400),
          Use({H("positions_texture")}, "glBindImageTexture", 403),
          Use({H("velocities_texture")}, "glBindImageTexture", 404),
          Use({H("tiled_acceleration_program")}, "glUseProgram", 410),
          Uniform("tiled_acceleration_program", 411),
          Use({H("acceleration_program")}, "glUseProgram", 415),
          Uniform("acceleration_program", 416),
          Use({H("integrate_program")}, "glUseProgram", 420),
          Uniform("integrate_program", 421),
          State("glBlendFunc", 426),
          Gen({H("query")}, 434),
          Ins("setRunning", {}, <<>>, 439) >>

\* the loop body for each value of tiled after the toggle of line 452
Frame_XXcompute_shader_nbody ==
    [tiled \in BOOLEAN |->
        << While("running", 440),
           Ins("keyEsc", {}, <<>>, 446),
           Ins("keySpace", {}, <<>>, 452),
           Ins("beginQuery", {H("query")}, <<"GL_TIME_ELAPSED">>, 459) >>
        \o (IF tiled THEN << Use({H("tiled_acceleration_program")}, "glUseProgram", 463) >>
                          \o Repeat(<< Uniform("tiled_acceleration_program", 467),
                                       Dispatch("tiled_acceleration_program", 468) >>,
                                    NumTiles)
                     ELSE << Use({H("acceleration_program")}, "glUseProgram", 473),
                             Dispatch("acceleration_program", 474) >>)
        \o << Ins("endQuery", {}, <<"GL_TIME_ELAPSED">>, 477),
              Use({H("integrate_program")}, "glUseProgram", 479),
              Dispatch("integrate_program", 481),
              State("glClear", 484),
              Use({H("shader_program")}, "glUseProgram", 487),
              Uniform("shader_program", 499),
              Uniform("shader_program", 500),
              Use({H("vao")}, "glBindVertexArray", 503),
              Draw({H("vao")}, 506),
              GetErr("running", 509),
              Ins("swap", {}, <<>>, 517),
              Ins("queryResult", {H("query")}, <<>>, 521) >>]

Teardown_XXcompute_shader_nbody ==
    << Delete({H("vao")}, 528),
       Delete({H("positions_vbo")}, 529),
       Delete({H("velocities_vbo")}, 530),
       Delete({H("positions_texture")}, 531),
       Delete({H("velocities_texture")}, 532),
       Detach("shader_program", "vertex_shader", 534),
       Detach("shader_program", "geometry_shader", 535),
       Detach("shader_program", "fragment_shader", 536),
       Delete({H("vertex_shader")}, 537),
       Delete({H("geometry_shader")}, 538),
       Delete({H("fragment_shader")}, 539),
       Delete({H("shader_program")}, 540),
       Detach("acceleration_program", "acceleration_shader", 542),
       Delete({H("acceleration_shader")}, 543),
       Delete({H("acceleration_program")}, 544),
       Ins("closeWindow", {}, <<>>, 546),
       Ins("terminate", {}, <<>>, 547),
       Return("0", 548) >>

(***************************************************************************)
(* The program of each example.  The frame body is selected by the local   *)
(* that decides its shape (the toggle flag, the buffer or query index).    *)
(***************************************************************************)
SetupOf ==
    [e \in Examples |->
        CASE e = "00skeleton" -> Setup_00skeleton
          [] e = "0skeleton" -> Setup_0skeleton
          [] e = "3texture" -> Setup_3texture
          [] e = "05fbo_fxaa" -> Setup_05fbo_fxaa
          [] e = "07geometry_shader_blending" -> Setup_07geometry_shader_blending
          [] e = "08map_buffer" -> Setup_08map_buffer
          [] e = "09transform_feedback" -> Setup_09transform_feedback
          [] e = "10queries_conditional_render" -> Setup_10queries_conditional_render
          [] e = "11tesselation" -> Setup_11tesselation
          [] e = "12shader_image_load_store" -> Setup_12shader_image_load_store
          [] e = "13compute_shader_nbody" -> Setup_13compute_shader_nbody
          [] e = "XXcompute_shader" -> Setup_XXcompute_shader
          [] e = "XXcompute_shader_nbody" -> Setup_XXcompute_shader_nbody]

TeardownOf ==
    [e \in Examples |->
        CASE e = "00skeleton" -> Teardown_00skeleton
          [] e = "0skeleton" -> Teardown_0skeleton
          [] e = "3texture" -> Teardown_3texture
          [] e = "05fbo_fxaa" -> Teardown_05fbo_fxaa
          [] e = "07geometry_shader_blending" -> Teardown_07geometry_shader_blending
          [] e = "08map_buffer" -> Teardown_08map_buffer
          [] e = "09transform_feedback" -> Teardown_09transform_feedback
          [] e = "10queries_conditional_render" -> Teardown_10queries_conditional_render
          [] e = "11tesselation" -> Teardown_11tesselation
          [] e = "12shader_image_load_store" -> Teardown_12shader_image_load_store
          [] e = "13compute_shader_nbody" -> Teardown_13compute_shader_nbody
          [] e = "XXcompute_shader" -> Teardown_XXcompute_shader
          [] e = "XXcompute_shader_nbody" -> Teardown_XXcompute_shader_nbody]

\* examples whose frame body depends on the toggle flag / on the ring index
FlagExamples == {"05fbo_fxaa", "11tesselation", "13compute_shader_nbody",
                 "XXcompute_shader_nbody"}
RingExamples == {"08map_buffer", "09transform_feedback",
                 "10queries_conditional_render"}

FrameOf(e, flag, cur) ==
    CASE e = "00skeleton" -> Frame_00skeleton
      [] e = "0skeleton" -> Frame_0skeleton
      [] e = "3texture" -> Frame_3texture
      [] e = "05fbo_fxaa" -> Frame_05fbo_fxaa[flag]
      [] e = "07geometry_shader_blending" -> Frame_07geometry_shader_blending
      [] e = "08map_buffer" -> Frame_08map_buffer[cur]
      [] e = "09transform_feedback" -> Frame_09transform_feedback[cur]
      [] e = "10queries_conditional_render" -> Frame_10queries_conditional_render[cur]
      [] e = "11tesselation" -> Frame_11tesselation[flag]
      [] e = "12shader_image_load_store" -> Frame_12shader_image_load_store
      [] e = "13compute_shader_nbody" -> Frame_13compute_shader_nbody[flag]
      [] e = "XXcompute_shader" -> Frame_XXcompute_shader
      [] e = "XXcompute_shader_nbody" -> Frame_XXcompute_shader_nbody[flag]

\* size of the ring a RingExample steps its index through
RingSize(e) ==
    CASE e = "08map_buffer" -> buffercount_08
      [] e = "09transform_feedback" -> buffercount_09
      [] e = "10queries_conditional_render" -> querycount
      [] OTHER -> 1

\* the loop iterations explored for an example: MaxFrames, and one whole
\* turn of the ring where the example steps an index through a larger ring
FrameBound(e) == IF RingSize(e) > MaxFrames THEN RingSize(e) ELSE MaxFrames

\* the value of the toggle flag before the first frame
InitialFlag(e) == e # "13compute_shader_nbody" /\ e # "XXcompute_shader_nbody"

(***************************************************************************)
(* The particle update of 08map_buffer (host, lines 252-273) and of        *)
(* 09transform_feedback (vertex shader, lines 209-226).  Numbers are       *)
(* rationals <<numerator, denominator>> in lowest terms with a positive    *)
(* denominator, so that sums and products are exact; vectors are triples   *)
(* of rationals.  The rounding of float is not modelled.                   *)
(***************************************************************************)
Abs(x) == IF x < 0 THEN 0 - x ELSE x

RECURSIVE Gcd(_, _)
Gcd(a, b) == IF b = 0 THEN a ELSE Gcd(b, a % b)

Q(n, d) ==
    LET k == Gcd(Abs(n), Abs(d))
        sgn == IF d < 0 THEN 0 - 1 ELSE 1
    IN  <<(sgn * n) \div k, (sgn * d) \div k>>
Whole(n) == <<n, 1>>
QAdd(a, b) ==
    LET k == Gcd(a[2], b[2])
    IN  Q(a[1] * (b[2] \div k) + b[1] * (a[2] \div k), (a[2] \div k) * b[2])
QNeg(a) == <<0 - a[1], a[2]>>
QSub(a, b) == QAdd(a, QNeg(b))
QMul(a, b) ==
    LET k == Gcd(Abs(a[1]), b[2])
        l == Gcd(Abs(b[1]), a[2])
    IN  Q((a[1] \div k) * (b[1] \div l), (a[2] \div l) * (b[2] \div k))
QDiv(a, b) == QMul(a, Q(b[2], b[1]))
QLess(a, b) == a[1] * b[2] < b[1] * a[2]

vec3(x, y, z) == <<Whole(x), Whole(y), Whole(z)>>
VAdd(u, v) == [k \in 1..3 |-> QAdd(u[k], v[k])]
VSub(u, v) == [k \in 1..3 |-> QSub(u[k], v[k])]
VScale(a, v) == [k \in 1..3 |-> QMul(a, v[k])]
dot(u, v) == QAdd(QAdd(QMul(u[1], v[1]), QMul(u[2], v[2])), QMul(u[3], v[3]))

\* the parameters, the same in both files (08: 229-242, 09: 315-328)
spheres == 3
center == <<vec3(0, 12, 1), vec3(0 - 3, 0, 0), vec3(5, 0 - 10, 0)>>
radius == <<Whole(3), Whole(7), Whole(12)>>
dt == Q(1, 60)
g == <<Whole(0), Q(0 - 981, 100), Whole(0)>>
bounce == Q(6, 5)
\* the height below which a particle is put back to a starting position
Floor == Whole(0 - 30)

\* the centre of the cube in which a particle that fell out is given a new
\* position: by random numbers on the host, by a hash of gl_VertexID and
\* seed in the shader.  The position inside the cube is not modelled
Start == vec3(0, 20, 0)

\* 08, lines 255-258: the collision with sphere j reads the velocity the
\* collisions with the spheres before j have left
CpuCollide(pos, velocity, j) ==
    LET diff == VSub(pos, center[j])
        dist2 == dot(diff, diff)
    IN  IF QLess(dist2, QMul(radius[j], radius[j])) /\ QLess(dot(diff, velocity), Whole(0))
        THEN VSub(velocity, VScale(QMul(QDiv(bounce, dist2), dot(diff, velocity)), diff))
        ELSE velocity

RECURSIVE CpuSpheres(_, _, _)
CpuSpheres(pos, velocity, j) ==
    IF j > spheres THEN velocity
    ELSE CpuSpheres(pos, CpuCollide(pos, velocity, j), j + 1)

\* 08, lines 252-273, for one particle
update_physics(p) ==
    LET velocity == VAdd(CpuSpheres(p.pos, p.vel, 1), VScale(dt, g))
        pos == VAdd(p.pos, VScale(dt, velocity))
    IN  IF QLess(pos[2], Floor)
        THEN [done |-> TRUE, respawn |-> TRUE, pos |-> Start, vel |-> vec3(0, 0, 0)]
        ELSE [done |-> TRUE, respawn |-> FALSE, pos |-> pos, vel |-> velocity]

\* 09, lines 212-216: vdot is taken with invelocity, the velocity the
\* particle entered the step with
GpuCollide(inposition, invelocity, outvelocity, j) ==
    LET diff == VSub(inposition, center[j])
        dist2 == dot(diff, diff)
        vdot == dot(diff, invelocity)
    IN  IF QLess(dist2, QMul(radius[j], radius[j])) /\ QLess(vdot, Whole(0))
        THEN VSub(outvelocity, VScale(QDiv(QMul(bounce, vdot), dist2), diff))
        ELSE outvelocity

RECURSIVE GpuSpheres(_, _, _, _)
GpuSpheres(inposition, invelocity, outvelocity, j) ==
    IF j > spheres THEN outvelocity
    ELSE GpuSpheres(inposition, invelocity,
                    GpuCollide(inposition, invelocity, outvelocity, j), j + 1)

\* 09, lines 209-226: main() of the transform vertex shader
transform_vertex(p) ==
    LET outvelocity == VAdd(GpuSpheres(p.pos, p.vel, p.vel, 1), VScale(dt, g))
        outposition == VAdd(p.pos, VScale(dt, outvelocity))
    IN  IF QLess(outposition[2], Floor)
        THEN [done |-> TRUE, respawn |-> TRUE, pos |-> Start, vel |-> vec3(0, 0, 0)]
        ELSE [done |-> TRUE, respawn |-> FALSE, pos |-> outposition, vel |-> outvelocity]

\* particle states explored: at the start position, inside each single
\* sphere, inside both the second and the third sphere, and just above
\* the floor; at rest or moving by one unit along x and y
Positions == {Start, vec3(0, 13, 1), vec3(0 - 3, 5, 0), vec3(5, 0 - 15, 0),
              vec3(0 - 3, 0 - 4, 0), vec3(0, 0 - 30, 0)}
Speeds == {0 - 1, 0, 1}
Velocities == {vec3(x, y, 0) : x \in Speeds, y \in Speeds}
\* the update has not run
Pending == [done |-> FALSE, respawn |-> FALSE, pos |-> Start, vel |-> vec3(0, 0, 0)]
\* no particle is followed while a whole program runs
Untracked == [in |-> [pos |-> Start, vel |-> vec3(0, 0, 0)],
              cpu |-> Pending, gpu |-> Pending]

(***************************************************************************)
(* The compute kernels of 13compute_shader_nbody.cpp, lines 185-308        *)
(***************************************************************************)
\* layout(local_size_x=256) in;  const int particles = 8*1024;
local_size_x == 256
particles == 8 * 1024

\* the dispatch the kernels are followed on: gl_NumWorkGroups.x work groups
\* of gl_WorkGroupSize.x invocations
NumWorkGroups == 2
WorkGroupSize == 2
\* int N = int(gl_NumWorkGroups.x*gl_WorkGroupSize.x);
N == NumWorkGroups * WorkGroupSize
\* gl_GlobalInvocationID.x of the invocations
Invocations == 0..N - 1
\* gl_WorkGroupID.x and gl_LocalInvocationIndex of invocation n
WorkGroup(n) == n \div WorkGroupSize
Local(n) == n % WorkGroupSize
\* the invocations that share tmp with n
Group(n) == {m \in Invocations : WorkGroup(m) = WorkGroup(n)}

\* buffer elements as expressions over the initial data: a position is its
\* initial value p and the velocities it was moved by, a velocity its
\* initial value v and the acceleration terms added to it, in order
PosVals == 1..2
Position(p) == [p |-> p, moved |-> <<>>]
Velocity(v) == [v |-> v, terms |-> <<>>]
\* diff*0.1*invdist*invdist*invdist for diff = position - other
Term(position, other) == <<position, other>>
\* velocity + dt*acceleration, acceleration the sum of the terms in order
Accelerated(velocity, acceleration) == [velocity EXCEPT !.terms = @ \o acceleration]
\* position.xyz += dt*velocity.xyz
Moved(position, velocity) == [position EXCEPT !.moved = Append(@, velocity)]

\* the loop of lines 200-205 from i on
RECURSIVE AccelerationLoop(_, _, _, _)
AccelerationLoop(position, positions, i, acceleration) ==
    IF i < N
    THEN AccelerationLoop(position, positions, i + 1,
                          Append(acceleration, Term(position, positions[i])))
    ELSE acceleration

\* what invocation index of the straightforward kernel (lines 193-207)
\* writes to velocities[index]
acceleration_main(index, positions, velocities) ==
    Accelerated(velocities[index],
                AccelerationLoop(positions[index], positions, 0, <<>>))

\* an invocation before its first statement, and a tmp slot never written
Started == [pc |-> "load", position |-> Position(0), velocity |-> Velocity(0),
            acceleration |-> <<>>, from |-> <<>>, tile |-> 0, i |-> 0, b |-> 0]
Unwritten == [val |-> Position(0), idx |-> 0 - 1, tile |-> 0 - 1]
\* no dispatch is followed while a whole program runs
Idle == [kernel |-> "none", positions |-> <<>>, velocities |-> <<>>, inv |-> <<>>,
         tmp |-> <<>>, access |-> {}]

(***************************************************************************)
(* State                                                                   *)
(***************************************************************************)
VARIABLES
    ex,             \* the example being run
    pc,             \* [ph, i]: position in the setup / loop / teardown list
    glfw,           \* "uninit", "init", "terminated"
    window,         \* "none", "open", "closed"
    ctx,            \* a GL context is current on the thread
    live,           \* GL handles created and not deleted
    deleted,        \* GL handles passed to a glDelete* call
    attached,       \* <<program, shader>> pairs attached
    begun,          \* query handles that glBeginQuery has been called on
    gl,             \* bindings of the GL context and contents of its buffers
    particle,       \* one particle of 08 / 09: its state and the state one
                    \* update step of the host loop / of the vertex shader gives
    kern,           \* one compute dispatch of 13: the kernel, the two buffers,
                    \* the invocations, the shared tmp array of each work
                    \* group and the buffer elements each invocation accessed
    misuse,         \* handles passed to a GL call while not live
    failed,         \* failures that happened: <<kind, what>>
    detected,       \* failures the code tested for and acted on
    uniformQueried, \* programs glGetUniformLocation was called on
    cerr,           \* what was written to std::cerr: <<kind, what>>
    cout,           \* what was written to std::cout: <<kind, what>>
    exit,           \* "running", "0", "1", "crash"
    frames,         \* number of loop iterations entered
    loc,            \* locals of main: flag, space_down, cur, running, i, j, maxdist
    inp,            \* what the window system reports: esc, space, close
    view,           \* 10queries: per chunk, distance to the camera and
                    \* whether the frustum test rejects it
    chunks,         \* 10queries: the chunks vector, as the order of chunk ids
    fr,             \* history of the current loop iteration
    phaseLog,       \* phases entered so far, consecutive repeats collapsed
    errFrame,       \* glGetError has reported an error
    frameAfterErr   \* a loop iteration was entered after that

winVars == <<glfw, window, ctx>>
objVars == <<live, deleted, attached, begun>>
diagVars == <<failed, detected, uniformQueried, cerr, cout>>
loopVars == <<frames, loc, inp, view, chunks>>
ghostVars == <<fr, errFrame, frameAfterErr>>
shaderVars == <<particle, kern>>
progVars == <<ex, pc, glfw, window, ctx, live, deleted, attached, begun, gl, misuse,
              failed, detected, uniformQueried, cerr, cout, exit, frames, loc, inp,
              view, chunks, fr, phaseLog, errFrame, frameAfterErr>>
vars == <<particle, kern, ex, pc, glfw, window, ctx, live, deleted, attached, begun, gl, misuse,
          failed, detected, uniformQueried, cerr, cout, exit, frames, loc, inp,
          view, chunks, fr, phaseLog, errFrame, frameAfterErr>>

\* distances of a chunk centre from the camera that are told apart: inside
\* the first slice (< chunksize) and, beyond the second (< 3*chunksize),
\* inside the third (< 5*chunksize)
Dists == {chunksize \div 2, 3 * chunksize + 8}

\* the orders the elements of S can be put in
Orders(S) ==
    {p \in [1..Cardinality(S) -> S] : \A a, b \in 1..Cardinality(S) : a # b => p[a] # p[b]}

AppendC(s, x) == IF Len(s) > 0 /\ s[Len(s)] = x THEN s ELSE Append(s, x)

NewFrame == [polls |-> 0, lateDraw |-> FALSE, log |-> <<>>, blocked |-> {},
             swapped |-> FALSE, maps |-> <<>>, uploads |-> <<>>, feedback |-> <<>>,
             drawn |-> <<>>, peel |-> <<>>,
             sampled |-> FALSE, space |-> FALSE, prev |-> FALSE, flag0 |-> FALSE,
             held |-> 0, flips |-> 0, reads |-> <<>>, timer |-> <<>>,
             passes |-> <<>>]

\* the history at the start of a loop iteration that follows history h: the
\* space key as the previous iteration sampled it, the feature flag as it
\* is now, and the run of iterations the key has been held for
NextFrame(h, flag) ==
    [NewFrame EXCEPT !.prev = h.space, !.flag0 = flag, !.held = h.held,
                     !.flips = h.flips]

\* the name 0: no object
None == <<"0", 0>>
\* the contents of a buffer whose storage was allocated without data
Undefined == 0 - 1

\* a fresh context: nothing bound, no buffer has storage.  array, vao, tf:
\* the objects bound to GL_ARRAY_BUFFER, as vertex array and to
\* GL_TRANSFORM_FEEDBACK_BUFFER 0; attrib: per vertex array the buffer its
\* attribute pointers read; store: per buffer the particle data it holds,
\* as the number of update steps the data went through; host: the same
\* for vertexData in host memory; mapped: the buffer mapped into host memory;
\* active: per query target the query begun and not ended; ended: the query
\* objects that were begun and ended, whose result the GL can deliver;
\* cond: the query of the conditional render in progress; faults: the
\* query calls made in a state in which the GL rejects them; ssbo: the
\* buffers bound to the GL_SHADER_STORAGE_BUFFER binding points; unsynced:
\* per buffer written by a compute shader with no glMemoryBarrier since,
\* the contents it had before (a later read may still get them)
NoBindings == [array |-> None, vao |-> None, tf |-> None, tfActive |-> FALSE,
               attrib |-> <<>>, store |-> <<>>, host |-> 0, mapped |-> None,
               active |-> <<>>, ended |-> {}, cond |-> None, faults |-> {},
               ssbo |-> {}, unsynced |-> <<>>, result |-> <<>>,
               fb |-> None, color |-> <<>>, depth |-> FALSE, tex |-> None,
               prog |-> None]

\* the program at the entry of main
AtEntry ==
    /\ pc = [ph |-> "setup", i |-> 1]
    /\ glfw = "uninit"
    /\ window = "none"
    /\ ctx = FALSE
    /\ live = {}
    /\ deleted = {}
    /\ attached = {}
    /\ begun = {}
    /\ gl = NoBindings
    /\ misuse = {}
    /\ failed = {}
    /\ detected = {}
    /\ uniformQueried = {}
    /\ cerr = {}
    /\ cout = {}
    /\ exit = "running"
    /\ frames = 0
    /\ loc = [flag |-> InitialFlag(ex), space_down |-> FALSE, cur |-> 0,
              running |-> FALSE, i |-> 0, j |-> 0, maxdist |-> 0]
    /\ inp = [esc |-> FALSE, space |-> FALSE, close |-> FALSE]
    /\ view = [c \in ChunkIds |-> [dist |-> chunksize \div 2, out |-> FALSE]]
    /\ chunks = [k \in 1..NumChunks |-> k - 1]
    /\ fr = NextFrame(NewFrame, InitialFlag(ex))
    /\ phaseLog = <<>>
    /\ errFrame = FALSE
    /\ frameAfterErr = FALSE

Init ==
    /\ ex \in Examples
    /\ AtEntry
    /\ particle = Untracked
    /\ kern = Idle

(***************************************************************************)
(* The interpreter: the instruction at pc and where control goes next.     *)
(***************************************************************************)
Code ==
    CASE pc.ph = "setup" -> SetupOf[ex]
      [] pc.ph = "loop" -> FrameOf(ex, loc.flag, loc.cur)
      [] pc.ph = "teardown" -> TeardownOf[ex]
      [] OTHER -> <<>>

Running == exit = "running" /\ pc.ph # "done"
I(code) == code[pc.i]
At(code, op) == Running /\ I(code).op = op

\* the statement after the current one; the loop body is followed by its head
Fall(code) ==
    IF pc.i < Len(code) THEN [pc EXCEPT !.i = pc.i + 1]
    ELSE [ph |-> "loop", i |-> 1]

\* the statement of the loop body at source line ln
Line(code, ln) == [ph |-> "loop", i |-> CHOOSE k \in 1..Len(code) : code[k].ln = ln]

Done == [ph |-> "done", i |-> 1]

\* the phase a statement belongs to
PhaseOf(op) ==
    CASE op \in {"glfwInit", "openWindow", "makeCurrent", "loaderInit", "extCheck"} -> "init"
      [] op \in {"compile", "createProgram", "attach", "link"} -> "compile"
      [] op \in {"gen", "data"} -> "build"
      [] op = "while" -> "loop"
      [] OTHER -> "none"

Phase(code) ==
    IF pc.ph = "teardown" THEN "teardown"
    ELSE IF pc.ph = "loop" THEN "loop"
    ELSE PhaseOf(I(code).op)

LogPhase(code) == phaseLog' = IF Phase(code) = "none" THEN phaseLog ELSE AppendC(phaseLog, Phase(code))

\* the handle a call receives: chunk handles are read from the chunks vector
Resolve(h) ==
    IF h[2] >= 0 THEN h
    ELSE IF h[2] = 0 - 1 THEN <<h[1], chunks[loc.j + 1]>>
    ELSE <<h[1], chunks[0 - h[2] - 1]>>
Handles(code) == {Resolve(h) : h \in I(code).h}

\* handles the call receives that are not (or no longer) GL objects
NotLive(code) == {h \in Handles(code) : h \notin live}

\* the window and the window system after the cleanup calls of a branch
WindowAfter(calls) ==
    IF window = "open" /\ Range(calls) # {} THEN "closed" ELSE window
GlfwAfter(calls) ==
    IF glfw = "init" /\ "terminate" \in Range(calls) THEN "terminated" ELSE glfw

\* { cleanup; return 1; }
Return1(calls) ==
    /\ window' = WindowAfter(calls)
    /\ glfw' = GlfwAfter(calls)
    /\ ctx' = (ctx /\ WindowAfter(calls) = "open")
    /\ exit' = "1"
    /\ pc' = Done

\* a call without a current GL context, or into an uninitialized library,
\* that takes the process down
Crash ==
    /\ exit' = "crash"
    /\ pc' = Done

(***************************************************************************)
(* Window system and loader initialization                                 *)
(***************************************************************************)
\* glfwInit(); the GLFW 2 examples 0skeleton, 3texture and 12 ignore the result
glfwInit ==
    \E code \in {Code} :
    /\ At(code, "glfwInit")
    /\ LogPhase(code)
    /\ \E ok \in BOOLEAN :
        IF ok THEN
            /\ glfw' = "init"
            /\ pc' = Fall(code)
            /\ UNCHANGED <<window, ctx, failed, detected, cerr, exit>>
        ELSE
            /\ failed' = failed \cup {<<"init", "glfw">>}
            /\ IF I(code).chk THEN
                  /\ detected' = detected \cup {<<"init", "glfw">>}
                  /\ cerr' = cerr \cup {<<"init", "glfw">>}
                  /\ Return1(I(code).arg)
               ELSE
                  /\ pc' = Fall(code)
                  /\ UNCHANGED <<glfw, window, ctx, detected, cerr, exit>>
    /\ UNCHANGED <<ex, shaderVars, gl, objVars, misuse, uniformQueried, cout, loopVars, ghostVars>>

\* glfwOpenWindow (GLFW 2: the context becomes current) / glfwCreateWindow
glfwOpenWindow ==
    \E code \in {Code} :
    /\ At(code, "openWindow")
    /\ LogPhase(code)
    /\ \E ok \in {b \in BOOLEAN : b => glfw = "init"} :
        IF ok THEN
            /\ window' = "open"
            /\ ctx' = (ex \in Glfw2Examples)
            /\ pc' = Fall(code)
            /\ UNCHANGED <<glfw, failed, detected, cerr, exit>>
        ELSE
            /\ failed' = failed \cup {<<"init", "window">>}
            /\ IF I(code).chk THEN
                  /\ detected' = detected \cup {<<"init", "window">>}
                  /\ cerr' = cerr \cup {<<"init", "window">>}
                  /\ Return1(I(code).arg)
               ELSE
                  /\ pc' = Fall(code)
                  /\ UNCHANGED <<glfw, window, ctx, detected, cerr, exit>>
    /\ UNCHANGED <<ex, shaderVars, gl, objVars, misuse, uniformQueried, cout, loopVars, ghostVars>>

\* glfwMakeContextCurrent(window)
glfwMakeContextCurrent ==
    \E code \in {Code} :
    /\ At(code, "makeCurrent")
    /\ LogPhase(code)
    /\ ctx' = (window = "open")
    /\ pc' = Fall(code)
    /\ UNCHANGED <<ex, shaderVars, gl, glfw, window, objVars, misuse, diagVars, exit, loopVars, ghostVars>>

\* glewInit / gl3wInit / glxwInit and the test of its result.  Without a
\* current context the loader's GL calls are undefined: it reports failure
\* or the process dies.
LoaderInit ==
    \E code \in {Code} :
    /\ At(code, "loaderInit")
    /\ LogPhase(code)
    /\ \E outcome \in (IF ctx THEN {"ok", "fail"} ELSE {"fail", "crash"}) :
        CASE outcome = "ok" ->
                /\ pc' = Fall(code)
                /\ UNCHANGED <<winVars, failed, detected, cerr, exit>>
          [] outcome = "fail" ->
                /\ failed' = failed \cup {<<"init", "loader">>}
                /\ detected' = detected \cup {<<"init", "loader">>}
                /\ cerr' = cerr \cup {<<"init", "loader">>}
                /\ Return1(I(code).arg)
          [] outcome = "crash" ->
                /\ Crash
                /\ UNCHANGED <<winVars, failed, detected, cerr>>
    /\ UNCHANGED <<ex, shaderVars, gl, objVars, misuse, uniformQueried, cout, loopVars, ghostVars>>

\* if(!glewGetExtension(...)) { std::cout << ...; glfwTerminate(); return 1; }
glewGetExtension ==
    \E code \in {Code} :
    /\ At(code, "extCheck")
    /\ LogPhase(code)
    /\ \E ok \in BOOLEAN :
        IF ok THEN
            /\ pc' = Fall(code)
            /\ UNCHANGED <<winVars, failed, detected, cout, exit>>
        ELSE
            /\ failed' = failed \cup {<<"init", "ext">>}
            /\ detected' = detected \cup {<<"init", "ext">>}
            /\ cout' = cout \cup {<<"init", "ext">>}
            /\ Return1(I(code).arg)
    /\ UNCHANGED <<ex, shaderVars, gl, objVars, misuse, uniformQueried, cerr, loopVars, ghostVars>>

(***************************************************************************)
(* Shaders and programs                                                    *)
(***************************************************************************)
\* check_shader_compile_status: queries GL_COMPILE_STATUS; on GL_FALSE
\* writes the info log to std::cerr and returns false
check_shader_compile_status_mutant(status) == [ret |-> TRUE, log |-> ~status]
check_shader_compile_status(status) == [ret |-> status, log |-> ~status]

\* check_program_link_status: queries GL_LINK_STATUS; on GL_FALSE writes
\* the info log to std::cerr and returns false
check_program_link_status(status) == [ret |-> status, log |-> ~status]

\* glCreateShader; glShaderSource; glCompileShader;
\* if(!check_shader_compile_status(shader)) { cleanup; return 1; }
glCompileShader ==
    \E code \in {Code} :
    /\ At(code, "compile")
    /\ ctx
    /\ LogPhase(code)
    /\ live' = live \cup Handles(code)
    /\ \E status \in BOOLEAN :
        LET sh == (CHOOSE h \in I(code).h : TRUE)[1]
            r == check_shader_compile_status(status)
        IN  /\ failed' = IF status THEN failed ELSE failed \cup {<<"compile", sh>>}
            /\ cerr' = IF r.log THEN cerr \cup {<<"compile", sh>>} ELSE cerr
            /\ IF r.ret THEN
                  /\ pc' = Fall(code)
                  /\ UNCHANGED <<winVars, detected, exit>>
               ELSE
                  /\ detected' = detected \cup {<<"compile", sh>>}
                  /\ Return1(I(code).arg)
    /\ UNCHANGED <<ex, shaderVars, gl, deleted, attached, begun, misuse, uniformQueried, cout,
                   loopVars, ghostVars>>

\* glCreateProgram
glCreateProgram ==
    \E code \in {Code} :
    /\ At(code, "createProgram")
    /\ ctx
    /\ LogPhase(code)
    /\ live' = live \cup Handles(code)
    /\ pc' = Fall(code)
    /\ UNCHANGED <<ex, shaderVars, gl, winVars, deleted, attached, begun, misuse, diagVars, exit,
                   loopVars, ghostVars>>

\* glAttachShader(program, shader)
glAttachShader ==
    \E code \in {Code} :
    /\ At(code, "attach")
    /\ ctx
    /\ LogPhase(code)
    /\ attached' = attached \cup {I(code).arg}
    /\ misuse' = misuse \cup NotLive(code)
    /\ pc' = Fall(code)
    /\ UNCHANGED <<ex, shaderVars, gl, winVars, live, deleted, begun, diagVars, exit, loopVars, ghostVars>>

\* glLinkProgram(program); check_program_link_status(program);
\* the value check_program_link_status returns is not used
glLinkProgram ==
    \E code \in {Code} :
    /\ At(code, "link")
    /\ ctx
    /\ LogPhase(code)
    /\ misuse' = misuse \cup NotLive(code)
    /\ \E status \in BOOLEAN :
        LET prog == (CHOOSE h \in I(code).h : TRUE)[1]
            r == check_program_link_status(status)
        IN  /\ failed' = IF status THEN failed ELSE failed \cup {<<"link", prog>>}
            /\ cerr' = IF r.log THEN cerr \cup {<<"link", prog>>} ELSE cerr
    /\ pc' = Fall(code)
    /\ UNCHANGED <<ex, shaderVars, gl, winVars, objVars, detected, uniformQueried, cout, exit,
                   loopVars, ghostVars>>

\* glGetUniformLocation(program, ...), once or several times in a row
glGetUniformLocation ==
    \E code \in {Code} :
    /\ At(code, "uniformLoc")
    /\ ctx
    /\ LogPhase(code)
    /\ uniformQueried' = uniformQueried \cup {h[1] : h \in I(code).h}
    /\ misuse' = misuse \cup NotLive(code)
    /\ pc' = Fall(code)
    /\ UNCHANGED <<ex, shaderVars, gl, winVars, objVars, failed, detected, cerr, cout, exit,
                   loopVars, ghostVars>>

(***************************************************************************)
(* Objects, bindings and state                                             *)
(***************************************************************************)
\* glGenVertexArrays / glGenBuffers / glGenTextures / glGenRenderbuffers /
\* glGenFramebuffers / glGenQueries
glGen ==
    \E code \in {Code} :
    /\ At(code, "gen")
    /\ ctx
    /\ LogPhase(code)
    /\ live' = live \cup Handles(code)
    /\ pc' = Fall(code)
    /\ UNCHANGED <<ex, shaderVars, gl, winVars, deleted, attached, begun, misuse, diagVars, exit,
                   loopVars, ghostVars>>

\* the object a call on a single object names
TheHandle(code) == CHOOSE h \in Handles(code) : TRUE

\* f with x mapped to v
With(f, x, v) == (x :> v) @@ f

\* glBufferData / glTexImage2D / glRenderbufferStorage on the bound object.
\* glBufferData(target, size, data, usage) gives the buffer new storage
\* holding the host data passed, or undefined contents for data = 0
glBufferData ==
    \E code \in {Code} :
    /\ At(code, "data")
    /\ ctx
    /\ LogPhase(code)
    /\ misuse' = misuse \cup NotLive(code)
    /\ gl' = CASE I(code).arg[1] = "glBufferData" ->
                    [gl EXCEPT !.store = With(@, TheHandle(code), gl.host)]
                [] I(code).arg[1] = "glBufferData(0)" ->
                    [gl EXCEPT !.store = With(@, TheHandle(code), Undefined)]
                [] OTHER -> gl
    /\ pc' = Fall(code)
    /\ UNCHANGED <<ex, shaderVars, winVars, objVars, diagVars, exit, loopVars, ghostVars>>

\* glBind*, glUseProgram and the other calls that take a handle.
\* glBindFramebuffer(GL_FRAMEBUFFER, fbo) makes fbo the framebuffer drawn to;
\* glFramebufferTexture2D(GL_FRAMEBUFFER, GL_COLOR_ATTACHMENT0, ..., texture)
\* makes the texture the colour attachment of the framebuffer bound.
\* glMapBufferRange(GL_ARRAY_BUFFER, 0, size, ...) maps the whole buffer
\* bound to GL_ARRAY_BUFFER; glUnmapBuffer releases the mapping
glBind ==
    \E code \in {Code} :
    /\ At(code, "use")
    /\ ctx
    /\ LogPhase(code)
    /\ misuse' = misuse \cup NotLive(code)
    /\ gl' = CASE I(code).arg[1] = "glBindBuffer" -> [gl EXCEPT !.array = TheHandle(code)]
                [] I(code).arg[1] = "glBindVertexArray" -> [gl EXCEPT !.vao = TheHandle(code)]
                [] I(code).arg[1] = "glBindBufferBase" -> [gl EXCEPT !.tf = TheHandle(code)]
                [] I(code).arg[1] = "glBindBuffersBase" -> [gl EXCEPT !.ssbo = Handles(code)]
                [] I(code).arg[1] = "glMapBufferRange" -> [gl EXCEPT !.mapped = gl.array]
                [] I(code).arg[1] = "glUnmapBuffer" -> [gl EXCEPT !.mapped = None]
                [] I(code).arg[1] = "glUseProgram" -> [gl EXCEPT !.prog = TheHandle(code)]
                [] I(code).arg[1] = "glBindTexture" -> [gl EXCEPT !.tex = TheHandle(code)]
                [] I(code).arg[1] = "glBindFramebuffer" -> [gl EXCEPT !.fb = TheHandle(code)]
                [] I(code).arg[1] = "glFramebufferTexture2D" /\ gl.fb \in Handles(code) ->
                    [gl EXCEPT !.color = With(@, gl.fb,
                                              CHOOSE h \in Handles(code) : h # gl.fb)]
                [] OTHER -> gl
    /\ fr' = IF I(code).arg[1] = "glMapBufferRange"
             THEN [fr EXCEPT !.maps = Append(@, gl.array)] ELSE fr
    /\ pc' = Fall(code)
    /\ UNCHANGED <<ex, shaderVars, winVars, objVars, diagVars, exit, loopVars, errFrame,
                   frameAfterErr>>

\* glEnable, glClear, glVertexAttribPointer, ...: no handle involved.
\* glVertexAttribPointer records the buffer bound to GL_ARRAY_BUFFER in the
\* bound vertex array
glState ==
    \E code \in {Code} :
    /\ At(code, "state")
    /\ ctx
    /\ LogPhase(code)
    /\ gl' = CASE I(code).arg[1] = "glVertexAttribPointer" /\ gl.vao # None ->
                    [gl EXCEPT !.attrib = With(@, gl.vao, gl.array)]
                [] I(code).arg[1] = "glBindVertexArray(0)" -> [gl EXCEPT !.vao = None]
                [] I(code).arg[1] = "glBeginTransformFeedback" -> [gl EXCEPT !.tfActive = TRUE]
                [] I(code).arg[1] = "glEndTransformFeedback" -> [gl EXCEPT !.tfActive = FALSE]
                [] I(code).arg[1] = "glBindFramebuffer(0)" -> [gl EXCEPT !.fb = None]
                [] I(code).arg[1] = "glBindTexture(0)" -> [gl EXCEPT !.tex = None]
                [] I(code).arg[1] = "glEnable(GL_DEPTH_TEST)" -> [gl EXCEPT !.depth = TRUE]
                [] I(code).arg[1] = "glDisable(GL_DEPTH_TEST)" -> [gl EXCEPT !.depth = FALSE]
                [] OTHER -> gl
    /\ pc' = Fall(code)
    /\ UNCHANGED <<ex, shaderVars, winVars, objVars, misuse, diagVars, exit, loopVars, ghostVars>>

\* host computation and window-system calls that cannot fail.  The physics
\* loop of 08map_buffer (lines 252-273) advances every particle of
\* vertexData by one step; std::copy(vertexData.begin(), vertexData.end(),
\* mapped) writes all of vertexData into the mapped buffer
HostStep ==
    \E code \in {Code} :
    /\ At(code, "host")
    /\ LogPhase(code)
    /\ gl' = CASE I(code).arg[1] = "update physics" -> [gl EXCEPT !.host = @ + 1]
                [] I(code).arg[1] = "std::copy" /\ gl.mapped # None ->
                    [gl EXCEPT !.store = With(@, gl.mapped, gl.host)]
                [] OTHER -> gl
    /\ fr' = IF I(code).arg[1] = "std::copy"
             THEN [fr EXCEPT !.uploads = Append(@, <<gl.mapped, gl.host>>)] ELSE fr
    /\ pc' = Fall(code)
    /\ UNCHANGED <<ex, shaderVars, winVars, objVars, misuse, diagVars, exit, loopVars, errFrame,
                   frameAfterErr>>

(***************************************************************************)
(* The frame loop                                                          *)
(***************************************************************************)
HandlesSpace == FlagExamples \cup {"10queries_conditional_render"}
HandlesEsc == Glfw2Examples

\* running = true;
SetRunning ==
    \E code \in {Code} :
    /\ At(code, "setRunning")
    /\ LogPhase(code)
    /\ loc' = [loc EXCEPT !.running = TRUE]
    /\ pc' = Fall(code)
    /\ UNCHANGED <<ex, shaderVars, gl, winVars, objVars, misuse, diagVars, exit, frames, inp, view,
                   chunks, ghostVars>>

\* the locals declared in the loop body (i, j, maxdist, ViewProjection) and
\* the distances and frustum tests computed there do not outlive an iteration
EndOfBody(l) == [l EXCEPT !.i = 0, !.j = 0, !.maxdist = 0]
ViewAtEndOfBody == [c \in DOMAIN view |-> [dist |-> chunksize \div 2, out |-> FALSE]]

\* while(running) / while(!glfwWindowShouldClose(window))
LoopHead ==
    \E code \in {Code} :
    /\ At(code, "while")
    /\ LogPhase(code)
    /\ LET cond == IF I(code).arg[1] = "running" THEN loc.running ELSE ~inp.close
       IN  IF cond THEN
              /\ frames < FrameBound(ex)
              /\ frames' = frames + 1
              /\ fr' = NextFrame(fr, loc.flag)
              /\ frameAfterErr' = (frameAfterErr \/ errFrame)
              /\ pc' = Fall(code)
           ELSE
              /\ pc' = [ph |-> "teardown", i |-> 1]
              /\ UNCHANGED <<frames, fr, frameAfterErr>>
    /\ loc' = EndOfBody(loc)
    /\ view' = ViewAtEndOfBody
    /\ UNCHANGED <<ex, shaderVars, gl, winVars, objVars, misuse, diagVars, exit, inp, chunks, errFrame>>

\* glfwPollEvents() of GLFW 3: key states and the close flag are updated
glfwPollEvents ==
    \E code \in {Code} :
    /\ At(code, "pollEvents")
    /\ LogPhase(code)
    /\ \E space \in (IF ex \in HandlesSpace THEN BOOLEAN ELSE {FALSE}), close \in BOOLEAN :
          inp' = [esc |-> FALSE, space |-> space, close |-> (inp.close \/ close)]
    /\ fr' = [fr EXCEPT !.blocked = @ \cup {"pollEvents"}]
    /\ pc' = Fall(code)
    /\ UNCHANGED <<ex, shaderVars, gl, winVars, objVars, misuse, diagVars, exit, frames, loc, view,
                   chunks, errFrame, frameAfterErr>>

\* if(glfwGetKey(GLFW_KEY_ESC)) running = false;
KeyEsc ==
    \E code \in {Code} :
    /\ At(code, "keyEsc")
    /\ LogPhase(code)
    /\ loc' = [loc EXCEPT !.running = (@ /\ ~inp.esc)]
    /\ pc' = Fall(code)
    /\ UNCHANGED <<ex, shaderVars, gl, winVars, objVars, misuse, diagVars, exit, frames, inp, view,
                   chunks, ghostVars>>

\* the history after the space key was sampled as down and the flag was
\* flipped or not; held: the number of consecutive iterations that have
\* sampled the key as down, where 2 stands for two or more
Sampled(h, down, flipped) ==
    [h EXCEPT !.sampled = TRUE, !.space = down,
              !.held = IF down THEN (IF @ = 0 THEN 1 ELSE 2) ELSE 0,
              !.flips = (IF down /\ h.held > 0 THEN @ ELSE 0)
                        + (IF flipped THEN 1 ELSE 0)]

\* the toggle without the test of space_down
KeySpace_mutant ==
    \E code \in {Code} :
    /\ At(code, "keySpace")
    /\ LogPhase(code)
    /\ loc' = [loc EXCEPT !.flag = IF inp.space THEN ~@ ELSE @,
                          !.space_down = inp.space]
    /\ fr' = Sampled(fr, inp.space, loc'.flag # loc.flag)
    /\ pc' = Fall(code)
    /\ UNCHANGED <<ex, shaderVars, gl, winVars, objVars, misuse, diagVars, exit, frames, inp, view,
                   chunks, errFrame, frameAfterErr>>

\* if(glfwGetKey(GLFW_KEY_SPACE) && !space_down) flag = !flag;
\* space_down = glfwGetKey(GLFW_KEY_SPACE);
KeySpace ==
    \E code \in {Code} :
    /\ At(code, "keySpace")
    /\ LogPhase(code)
    /\ loc' = [loc EXCEPT !.flag = IF inp.space /\ ~loc.space_down THEN ~@ ELSE @,
                          !.space_down = inp.space]
    /\ fr' = Sampled(fr, inp.space, loc'.flag # loc.flag)
    /\ pc' = Fall(code)
    /\ UNCHANGED <<ex, shaderVars, gl, winVars, objVars, misuse, diagVars, exit, frames, inp, view,
                   chunks, errFrame, frameAfterErr>>

\* glUniform*(location, ...) on the program in use
glUniform ==
    \E code \in {Code} :
    /\ At(code, "uniform")
    /\ ctx
    /\ LogPhase(code)
    /\ misuse' = misuse \cup NotLive(code)
    /\ fr' = IF pc.ph = "loop" THEN [fr EXCEPT !.log = AppendC(@, "uniform")] ELSE fr
    /\ pc' = Fall(code)
    /\ UNCHANGED <<ex, shaderVars, gl, winVars, objVars, diagVars, exit, loopVars, errFrame, frameAfterErr>>

\* the query active on target t
Active(t) == IF t \in DOMAIN gl.active THEN gl.active[t] ELSE None

\* an entry of the history of the peel loop: what was done, to which chunk
\* (for a query call: to which element of the query's array), under which
\* query, in the slice that ends at maxdist
Event(k, c, q) == [k |-> k, c |-> c, q |-> q, s |-> loc.maxdist]

\* the buffer the attributes of the bound vertex array are read from
Source == IF gl.vao \in DOMAIN gl.attrib THEN gl.attrib[gl.vao] ELSE None
\* the contents of buffer b
Stored(b) == IF b \in DOMAIN gl.store THEN gl.store[b] ELSE Undefined

\* the contents a read of buffer b can get: those stored, or, after a
\* compute shader wrote b and no glMemoryBarrier followed, those from
\* before (OpenGL 4.3, 7.12.2: such a read is not ordered after the write)
Visible(b) ==
    {Stored(b)} \cup (IF b \in DOMAIN gl.unsynced THEN {gl.unsynced[b]} ELSE {})

\* what the last draw or dispatch read from a buffer that a compute shader
\* wrote: the contents it got and the contents stored
Read(pass, b, seen) == [pass |-> pass, buf |-> b, seen |-> seen, stored |-> Stored(b)]

\* the state a draw call is issued in: the vertex array drawn, the
\* framebuffer drawn to (None: the default framebuffer), whether fragments
\* are depth tested, the program and the texture its sampler reads
Pass == [vao |-> gl.vao, fb |-> gl.fb, depth |-> gl.depth, prog |-> gl.prog,
         tex |-> gl.tex]

\* glDrawArrays / glDrawElements / glDrawArraysInstanced.  The vertices
\* come from the buffer of the bound vertex array.  Between
\* glBeginTransformFeedback and glEndTransformFeedback (09, lines 359-361)
\* the outputs of the vertex shader, the particles advanced by one step,
\* are written to the transform feedback buffer
glDraw ==
    \E code \in {Code} :
    /\ At(code, "draw")
    /\ ctx
    /\ LogPhase(code)
    /\ misuse' = misuse \cup NotLive(code)
    /\ gl' = IF gl.tfActive
             THEN [gl EXCEPT !.store = With(@, gl.tf, Stored(Source) + 1)]
             ELSE gl
    /\ \E seen \in Visible(Source) :
          fr' = [fr EXCEPT !.log = AppendC(@, "draw"),
                           !.lateDraw = (@ \/ fr.polls > 0),
                           !.feedback = IF gl.tfActive
                                        THEN Append(@, <<Source, gl.tf>>) ELSE @,
                           !.drawn = IF gl.tfActive THEN @
                                     ELSE Append(@, <<Source, seen>>),
                           !.passes = Append(@, Pass),
                           !.reads = IF Source \in DOMAIN gl.unsynced
                                     THEN <<Read("draw", Source, seen)>>
                                     ELSE <<>>,
                           !.peel = IF ex = "10queries_conditional_render"
                                    THEN Append(@, Event(
                                           IF gl.vao[1] = "chunk.bounding_vao"
                                           THEN "box" ELSE "draw", gl.vao[2],
                                           IF gl.vao[1] = "chunk.bounding_vao"
                                           THEN Active("GL_ANY_SAMPLES_PASSED")
                                           ELSE gl.cond))
                                    ELSE @]
    /\ pc' = Fall(code)
    /\ UNCHANGED <<ex, shaderVars, winVars, objVars, diagVars, exit, loopVars, errFrame, frameAfterErr>>

\* the program of the dispatch
TheProgram(code) == TheHandle(code)[1]

\* the buffer a kernel of 13compute_shader_nbody writes: velocities[index]
\* (lines 206, 264) or positions[index] (line 306)
KernelWrites(program) ==
    IF program = "integrate_program" THEN H("positions_vbo") ELSE H("velocities_vbo")

\* the buffers its invocations read: positions[] and velocities[]
KernelReads == <<H("positions_vbo"), H("velocities_vbo")>>

\* glDispatchCompute.  In 13compute_shader_nbody the kernel in use reads
\* the two shader storage buffers and writes one of them, advancing its
\* contents by one step; nothing orders the write before later reads
glDispatchCompute ==
    \E code \in {Code} :
    /\ At(code, "dispatch")
    /\ ctx
    /\ LogPhase(code)
    /\ misuse' = misuse \cup NotLive(code)
    /\ IF ex = "13compute_shader_nbody" /\ Range(KernelReads) \subseteq gl.ssbo
       THEN /\ gl' = [gl EXCEPT
                        !.store = With(@, KernelWrites(TheProgram(code)),
                                       Stored(KernelWrites(TheProgram(code))) + 1),
                        !.unsynced = With(@, KernelWrites(TheProgram(code)),
                                          Stored(KernelWrites(TheProgram(code))))]
            /\ \E s1 \in Visible(KernelReads[1]), s2 \in Visible(KernelReads[2]) :
                  LET seen == <<s1, s2>>
                  IN  fr' = [fr EXCEPT
                              !.lateDraw = (@ \/ fr.polls > 0),
                              !.reads = SelectSeq(
                                  [k \in 1..2 |-> Read(TheProgram(code), KernelReads[k], seen[k])],
                                  LAMBDA r : r.buf \in DOMAIN gl.unsynced)]
       ELSE /\ gl' = gl
            /\ fr' = [fr EXCEPT !.lateDraw = (@ \/ fr.polls > 0)]
    /\ pc' = Fall(code)
    /\ UNCHANGED <<ex, shaderVars, winVars, objVars, diagVars, exit, loopVars, errFrame, frameAfterErr>>

\* GLenum error = glGetError();
\* if(error != GL_NO_ERROR) { std::cerr << error; break; }   (GLFW 3 examples)
\* if(error != GL_NO_ERROR) { std::cerr << ...; running = false; }  (GLFW 2)
glGetError ==
    \E code \in {Code} :
    /\ At(code, "getError")
    /\ ctx
    /\ LogPhase(code)
    /\ fr' = [fr EXCEPT !.polls = @ + 1]
    /\ \E error \in BOOLEAN :
        IF error THEN
            /\ cerr' = cerr \cup {<<"glerror", "frame">>}
            /\ errFrame' = TRUE
            /\ IF I(code).arg[1] = "break" THEN
                  /\ pc' = [ph |-> "teardown", i |-> 1]
                  /\ loc' = EndOfBody(loc)
                  /\ view' = ViewAtEndOfBody
               ELSE
                  /\ pc' = Fall(code)
                  /\ loc' = [loc EXCEPT !.running = FALSE]
                  /\ view' = view
        ELSE
            /\ pc' = Fall(code)
            /\ UNCHANGED <<cerr, errFrame, loc, view>>
    /\ UNCHANGED <<ex, shaderVars, gl, winVars, objVars, misuse, failed, detected, uniformQueried,
                   cout, exit, frames, inp, chunks, frameAfterErr>>

\* glfwSwapBuffers.  In GLFW 2 it also polls events: key states are
\* updated and a close request runs closedWindow(), which clears running
\* and returns GL_TRUE, upon which GLFW closes the window and its context.
glfwSwapBuffers ==
    \E code \in {Code} :
    /\ At(code, "swap")
    /\ LogPhase(code)
    /\ fr' = [fr EXCEPT !.log = AppendC(@, "swap"), !.swapped = TRUE,
                        !.blocked = @ \cup {"swap"}]
    /\ IF ex \in Glfw2Examples THEN
          \E esc \in BOOLEAN, close \in BOOLEAN,
             space \in (IF ex \in HandlesSpace THEN BOOLEAN ELSE {FALSE}) :
             /\ inp' = [esc |-> esc, space |-> space, close |-> close]
             /\ loc' = [loc EXCEPT !.running = (@ /\ ~close)]
             /\ window' = IF close THEN "closed" ELSE window
             /\ ctx' = (ctx /\ ~close)
       ELSE UNCHANGED <<inp, loc, window, ctx>>
    /\ pc' = Fall(code)
    /\ UNCHANGED <<ex, shaderVars, gl, glfw, objVars, misuse, diagVars, exit, frames, view, chunks,
                   errFrame, frameAfterErr>>

\* current_buffer = (current_buffer + 1) % buffercount; (08, 09)
\* current_query = (current_query + 1) % querycount;    (10)
AdvanceRing ==
    \E code \in {Code} :
    /\ At(code, "advance")
    /\ LogPhase(code)
    /\ loc' = [loc EXCEPT !.cur = (@ + 1) % RingSize(ex)]
    /\ pc' = Fall(code)
    /\ UNCHANGED <<ex, shaderVars, gl, winVars, objVars, misuse, diagVars, exit, frames, inp, view,
                   chunks, ghostVars>>

(***************************************************************************)
(* 10queries_conditional_render: camera, sort and the peel loop            *)
(***************************************************************************)
\* what the frustum test of lines 560-563 and 587-590 decides for chunk c
Culled(c) == view[c].dist > chunksize /\ view[c].out

\* the views the camera movement of lines 472-523 can produce
Views ==
    {v \in [DOMAIN view -> [dist : Dists, out : BOOLEAN]] :
        \A c \in DOMAIN view : v[c].out => v[c].dist > chunksize}

\* lines 472-523: position and rotation from the input, ViewProjection
Camera ==
    \E code \in {Code} :
    /\ At(code, "camera")
    /\ LogPhase(code)
    /\ view' \in Views
    /\ pc' = Fall(code)
    /\ UNCHANGED <<ex, shaderVars, gl, winVars, objVars, misuse, diagVars, exit, frames, loc, inp,
                   chunks, ghostVars>>

\* std::sort(chunks.begin(), chunks.end(), DistancePred(position));
\* size_t i = 0; float maxdist = chunksize;
SortChunks ==
    \E code \in {Code} :
    /\ At(code, "sort")
    /\ LogPhase(code)
    /\ chunks' \in {p \in Orders(Range(chunks)) :
                      \A a, b \in 1..Len(chunks) :
                         a < b => view[p[a]].dist <= view[p[b]].dist}
    /\ loc' = [loc EXCEPT !.i = 0, !.maxdist = chunksize]
    /\ pc' = Fall(code)
    /\ UNCHANGED <<ex, shaderVars, gl, winVars, objVars, misuse, diagVars, exit, frames, inp, view,
                   ghostVars>>

\* while(i != chunks.size()) { size_t j = i;
PeelWhile ==
    \E code \in {Code} :
    /\ At(code, "peelWhile")
    /\ LogPhase(code)
    /\ IF loc.i # Len(chunks)
       THEN /\ loc' = [loc EXCEPT !.j = loc.i]
            /\ pc' = Fall(code)
       ELSE /\ loc' = loc
            /\ pc' = Line(code, I(code).arg[1])
    /\ UNCHANGED <<ex, shaderVars, gl, winVars, objVars, misuse, diagVars, exit, frames, inp, view,
                   chunks, ghostVars>>

\* if(occlusion_cull) {
IfOcclusionCull ==
    \E code \in {Code} :
    /\ At(code, "ifOcclusionCull")
    /\ LogPhase(code)
    /\ pc' = IF loc.flag THEN Fall(code) ELSE Line(code, I(code).arg[1])
    /\ UNCHANGED <<ex, shaderVars, gl, winVars, objVars, misuse, diagVars, exit, loopVars, ghostVars>>

\* for(; j < chunks.size() && distance(chunks[j].center, position) < maxdist; ++j) {
\*     if(<frustum test>) continue;
ChunkFor ==
    \E code \in {Code} :
    /\ At(code, "chunkFor")
    /\ LogPhase(code)
    /\ IF loc.j < Len(chunks) /\ view[chunks[loc.j + 1]].dist < loc.maxdist
       THEN IF Culled(chunks[loc.j + 1])
            THEN /\ loc' = [loc EXCEPT !.j = @ + 1]
                 /\ pc' = pc
                 /\ fr' = [fr EXCEPT !.peel = Append(@, Event(
                               IF I(code).ln = 558 THEN "boxCulled" ELSE "culled",
                               chunks[loc.j + 1], None))]
            ELSE /\ loc' = loc
                 /\ pc' = Fall(code)
                 /\ fr' = fr
       ELSE /\ loc' = loc
            /\ pc' = Line(code, I(code).arg[1])
            /\ fr' = fr
    /\ UNCHANGED <<ex, shaderVars, gl, winVars, objVars, misuse, diagVars, exit, frames, inp, view,
                   chunks, errFrame, frameAfterErr>>

\* } of the for loop: ++j and back to the test
ChunkNext ==
    \E code \in {Code} :
    /\ At(code, "chunkNext")
    /\ LogPhase(code)
    /\ loc' = [loc EXCEPT !.j = @ + 1]
    /\ pc' = Line(code, I(code).arg[1])
    /\ UNCHANGED <<ex, shaderVars, gl, winVars, objVars, misuse, diagVars, exit, frames, inp, view,
                   chunks, ghostVars>>

\* j = i;
ResetJ ==
    \E code \in {Code} :
    /\ At(code, "resetJ")
    /\ LogPhase(code)
    /\ loc' = [loc EXCEPT !.j = loc.i]
    /\ pc' = Fall(code)
    /\ UNCHANGED <<ex, shaderVars, gl, winVars, objVars, misuse, diagVars, exit, frames, inp, view,
                   chunks, ghostVars>>

\* the end of the loop body without i = j
PeelNext_mutant ==
    \E code \in {Code} :
    /\ At(code, "peelNext")
    /\ LogPhase(code)
    /\ loc' = [loc EXCEPT !.maxdist = @ + 2 * chunksize]
    /\ pc' = Line(code, I(code).arg[1])
    /\ UNCHANGED <<ex, shaderVars, gl, winVars, objVars, misuse, diagVars, exit, frames, inp, view,
                   chunks, ghostVars>>

\* i = j; maxdist += 2*chunksize; }
PeelNext ==
    \E code \in {Code} :
    /\ At(code, "peelNext")
    /\ LogPhase(code)
    /\ loc' = [loc EXCEPT !.i = loc.j, !.maxdist = @ + 2 * chunksize]
    /\ pc' = Line(code, I(code).arg[1])
    /\ UNCHANGED <<ex, shaderVars, gl, winVars, objVars, misuse, diagVars, exit, frames, inp, view,
                   chunks, ghostVars>>

(***************************************************************************)
(* Queries                                                                 *)
(***************************************************************************)
\* glBeginQuery(target, query): the name becomes a query object and the
\* query becomes active on the target.  The GL rejects the call while a
\* query is active on the target or the query is active on another target
glBeginQuery ==
    \E code \in {Code} :
    /\ At(code, "beginQuery")
    /\ ctx
    /\ LogPhase(code)
    /\ begun' = begun \cup Handles(code)
    /\ misuse' = misuse \cup NotLive(code)
    /\ gl' = IF Active(I(code).arg[1]) # None \/ TheHandle(code) \in {gl.active[t] : t \in DOMAIN gl.active}
             THEN [gl EXCEPT !.faults = @ \cup {"glBeginQuery"}]
             ELSE [gl EXCEPT !.active = With(@, I(code).arg[1], TheHandle(code)),
                             !.ended = @ \ {TheHandle(code)},
                             !.result = IF I(code).arg[1] = "GL_TIME_ELAPSED"
                                        THEN With(@, TheHandle(code), frames) ELSE @]
    /\ fr' = [fr EXCEPT !.peel = Append(@, Event("glBeginQuery", TheHandle(code)[2], TheHandle(code)))]
    /\ pc' = Fall(code)
    /\ UNCHANGED <<ex, shaderVars, winVars, live, deleted, attached, diagVars, exit, loopVars,
                   errFrame, frameAfterErr>>

\* glEndQuery(target): the query active on the target ends and its result
\* becomes available in time.  The GL rejects the call when none is active
glEndQuery ==
    \E code \in {Code} :
    /\ At(code, "endQuery")
    /\ ctx
    /\ LogPhase(code)
    /\ gl' = IF Active(I(code).arg[1]) = None
             THEN [gl EXCEPT !.faults = @ \cup {"glEndQuery"}]
             ELSE [gl EXCEPT !.active = With(@, I(code).arg[1], None),
                             !.ended = @ \cup {Active(I(code).arg[1])}]
    /\ fr' = [fr EXCEPT !.peel = Append(@, Event("glEndQuery", Active(I(code).arg[1])[2],
                                                   Active(I(code).arg[1])))]
    /\ pc' = Fall(code)
    /\ UNCHANGED <<ex, shaderVars, winVars, objVars, misuse, diagVars, exit, loopVars, errFrame,
                   frameAfterErr>>

\* if(occlusion_cull) glBeginConditionalRender(chunks[j].query, GL_QUERY_BY_REGION_WAIT);
\* the GL waits for the result of the occlusion query.  It rejects the call
\* while the query is active and for a name that is not a query object
glBeginConditionalRender ==
    \E code \in {Code} :
    /\ At(code, "beginCond")
    /\ ctx
    /\ LogPhase(code)
    /\ IF loc.flag
       THEN /\ misuse' = misuse \cup NotLive(code)
            /\ fr' = [fr EXCEPT !.blocked = @ \cup {"glBeginConditionalRender"},
                                !.peel = Append(@, Event("glBeginConditionalRender",
                                                         TheHandle(code)[2], TheHandle(code)))]
            /\ gl' = IF TheHandle(code) \in gl.ended /\ gl.cond = None
                     THEN [gl EXCEPT !.cond = TheHandle(code)]
                     ELSE [gl EXCEPT !.faults = @ \cup {"glBeginConditionalRender"}]
       ELSE UNCHANGED <<misuse, fr, gl>>
    /\ pc' = Fall(code)
    /\ UNCHANGED <<ex, shaderVars, winVars, objVars, diagVars, exit, loopVars, errFrame, frameAfterErr>>

\* if(occlusion_cull) glEndConditionalRender();
glEndConditionalRender ==
    \E code \in {Code} :
    /\ At(code, "endCond")
    /\ ctx
    /\ LogPhase(code)
    /\ IF loc.flag
       THEN /\ gl' = IF gl.cond = None
                     THEN [gl EXCEPT !.faults = @ \cup {"glEndConditionalRender"}]
                     ELSE [gl EXCEPT !.cond = None]
            /\ fr' = [fr EXCEPT !.peel = Append(@, Event("glEndConditionalRender",
                                                         gl.cond[2], gl.cond))]
       ELSE UNCHANGED <<fr, gl>>
    /\ pc' = Fall(code)
    /\ UNCHANGED <<ex, shaderVars, winVars, objVars, misuse, diagVars, exit, loopVars, errFrame,
                   frameAfterErr>>

\* if(GL_TRUE == glIsQuery(queries[(current_query+1)%querycount])) {
glIsQuery ==
    \E code \in {Code} :
    /\ At(code, "isQuery")
    /\ ctx
    /\ LogPhase(code)
    /\ pc' = IF Handles(code) \subseteq begun THEN Fall(code) ELSE Line(code, I(code).arg[1])
    /\ UNCHANGED <<ex, shaderVars, gl, winVars, objVars, misuse, diagVars, exit, loopVars, ghostVars>>

\* glGetQueryObjectui64v(query, GL_QUERY_RESULT, &result): returns when the
\* result is available; std::cout << result*1.e-6 << " ms/frame"
glGetQueryObjectui64v ==
    \E code \in {Code} :
    /\ At(code, "queryResult")
    /\ ctx
    /\ LogPhase(code)
    /\ misuse' = misuse \cup NotLive(code)
    /\ gl' = IF Handles(code) \subseteq gl.ended
             THEN gl
             ELSE [gl EXCEPT !.faults = @ \cup {"glGetQueryObjectui64v"}]
    /\ fr' = [fr EXCEPT !.blocked = @ \cup {"glGetQueryObjectui64v"},
                         !.timer = IF Handles(code) \cap DOMAIN gl.result # {}
                                   THEN Append(@, <<TheHandle(code), gl.result[TheHandle(code)]>>)
                                   ELSE @]
    /\ cout' = cout \cup {<<"timer", "ms/frame">>}
    /\ pc' = Fall(code)
    /\ UNCHANGED <<ex, shaderVars, winVars, objVars, failed, detected, uniformQueried, cerr, exit,
                   loopVars, errFrame, frameAfterErr>>

(***************************************************************************)
(* Teardown                                                                *)
(***************************************************************************)
\* glDetachShader(program, shader)
glDetachShader ==
    \E code \in {Code} :
    /\ At(code, "detach")
    /\ ctx
    /\ LogPhase(code)
    /\ attached' = attached \ {I(code).arg}
    /\ misuse' = misuse \cup NotLive(code)
    /\ pc' = Fall(code)
    /\ UNCHANGED <<ex, shaderVars, gl, winVars, live, deleted, begun, diagVars, exit, loopVars, ghostVars>>

\* glDeleteShader / glDeleteProgram / glDeleteBuffers / glDeleteVertexArrays /
\* glDeleteTextures / glDeleteQueries
glDelete ==
    \E code \in {Code} :
    /\ At(code, "delete")
    /\ ctx
    /\ LogPhase(code)
    /\ misuse' = misuse \cup NotLive(code)
    /\ live' = live \ Handles(code)
    /\ deleted' = deleted \cup Handles(code)
    /\ pc' = Fall(code)
    /\ UNCHANGED <<ex, shaderVars, gl, winVars, attached, begun, diagVars, exit, loopVars, ghostVars>>

\* glfwCloseWindow() / glfwDestroyWindow(window)
glfwCloseWindow ==
    \E code \in {Code} :
    /\ At(code, "closeWindow")
    /\ LogPhase(code)
    /\ window' = IF window = "open" THEN "closed" ELSE window
    /\ ctx' = FALSE
    /\ pc' = Fall(code)
    /\ UNCHANGED <<ex, shaderVars, gl, glfw, objVars, misuse, diagVars, exit, loopVars, ghostVars>>

\* glfwTerminate(): also closes a window that is still open
glfwTerminate ==
    \E code \in {Code} :
    /\ At(code, "terminate")
    /\ LogPhase(code)
    /\ glfw' = IF glfw = "init" THEN "terminated" ELSE glfw
    /\ window' = IF window = "open" THEN "closed" ELSE window
    /\ ctx' = FALSE
    /\ pc' = Fall(code)
    /\ UNCHANGED <<ex, shaderVars, gl, objVars, misuse, diagVars, exit, loopVars, ghostVars>>

\* return 0;
ReturnMain ==
    \E code \in {Code} :
    /\ At(code, "return")
    /\ LogPhase(code)
    /\ exit' = I(code).arg[1]
    /\ pc' = Done
    /\ UNCHANGED <<ex, shaderVars, gl, winVars, objVars, misuse, diagVars, loopVars, ghostVars>>

\* calls into the GL
GLOps == {"compile", "createProgram", "attach", "link", "uniformLoc", "gen", "data",
          "use", "state", "uniform", "draw", "dispatch", "getError", "beginQuery",
          "endQuery", "beginCond", "endCond", "isQuery", "queryResult", "detach",
          "delete"}

\* A GL call while no context is current (after closedWindow() let GLFW 2
\* close the window): undefined; the call is ignored or the process dies.
\* The objects of the closed context are gone with it.
GLCallNoContext ==
    \E code \in {Code} :
    /\ Running
    /\ I(code).op \in GLOps
    /\ ~ctx
    /\ LogPhase(code)
    /\ \E outcome \in {"ignored", "crash"} :
        IF outcome = "ignored" THEN
            /\ pc' = Fall(code)
            /\ live' = IF I(code).op = "delete" THEN live \ Handles(code) ELSE live
            /\ deleted' = IF I(code).op = "delete" THEN deleted \cup Handles(code) ELSE deleted
            /\ exit' = exit
        ELSE
            /\ Crash
            /\ UNCHANGED <<live, deleted>>
    /\ UNCHANGED <<ex, shaderVars, gl, winVars, attached, begun, misuse, diagVars, loopVars, ghostVars>>

Next ==
    \/ glfwInit \/ glfwOpenWindow \/ glfwMakeContextCurrent \/ LoaderInit
    \/ glewGetExtension
    \/ glCompileShader \/ glCreateProgram \/ glAttachShader \/ glLinkProgram
    \/ glGetUniformLocation
    \/ glGen \/ glBufferData \/ glBind \/ glState \/ HostStep
    \/ SetRunning \/ LoopHead \/ glfwPollEvents \/ KeyEsc \/ KeySpace
    \/ glUniform \/ glDraw \/ glDispatchCompute \/ glGetError \/ glfwSwapBuffers
    \/ AdvanceRing
    \/ Camera \/ SortChunks \/ PeelWhile \/ IfOcclusionCull \/ ChunkFor
    \/ ChunkNext \/ ResetJ \/ PeelNext
    \/ glBeginQuery \/ glEndQuery \/ glBeginConditionalRender
    \/ glEndConditionalRender \/ glIsQuery \/ glGetQueryObjectui64v
    \/ glDetachShader \/ glDelete \/ glfwCloseWindow \/ glfwTerminate
    \/ ReturnMain \/ GLCallNoContext

Spec == Init /\ [][Next]_vars

(***************************************************************************)
(* Properties                                                              *)
(***************************************************************************)
Finished == pc.ph = "done"
InitFailures == {f \in failed : f[1] = "init"}
CompileFailures == {f \in failed : f[1] = "compile"}
LinkFailures == {f \in failed : f[1] = "link"}

\* the run left its loop because the user closed the window or pressed ESC
Graceful ==
    /\ failed \cap {f \in failed : f[1] \in {"init", "compile"}} = {}
    /\ frames > 0
    /\ ~errFrame
    /\ inp.close \/ (ex \in HandlesEsc /\ inp.esc)

C2_WindowFailureHandled ==
    \A f \in {<<"init", "glfw">>, <<"init", "window">>} :
        f \in failed =>
            /\ f \in detected
            /\ f \in cerr \cup cout
            /\ Finished
            /\ exit = "1"
            /\ live \cup deleted = {}
            /\ frames = 0

\* C2: a run of an example that does not test the result of glfwInit
C2_Witness ==
    /\ ex = "3texture"
    /\ <<"init", "glfw">> \in failed
    /\ <<"init", "glfw">> \notin detected
    /\ pc.ph = "setup"

\* C3: if the compile status of a shader is false, its info log is written
\* to std::cerr and main returns 1 before the shader is attached to a
\* program or linked and before any frame is drawn.
C3_CompileFailureFatal ==
    \A f \in CompileFailures :
        /\ f \in cerr
        /\ Finished
        /\ exit = "1"
        /\ \A a \in attached : a[2] # f[2]
        /\ frames = 0

\* C3: the last compute shader of 13compute_shader_nbody fails to compile
\* after three programs were linked
C3_Witness ==
    /\ ex = "13compute_shader_nbody"
    /\ <<"compile", "integrate_shader">> \in failed
    /\ <<"tiled_acceleration_program", "tiled_acceleration_shader">> \in attached
    /\ exit = "1"

\* C4: if the link status of a program is false, its info log is written
\* to std::cerr and the example exits early: no uniform location is
\* queried on that program and the render loop is never entered.
C4_LinkFailureFatal ==
    \A f \in LinkFailures :
        /\ f \in cerr
        /\ f[2] \notin uniformQueried
        /\ frames = 0
        /\ pc.ph \in {"setup", "done"}
        /\ (Finished => exit = "1")

\* C4: a program failed to link and its frame loop runs
C4_Witness ==
    /\ ex = "05fbo_fxaa"
    /\ <<"link", "shader_program">> \in failed
    /\ <<"link", "shader_program">> \in cerr
    /\ "shader_program" \in uniformQueried
    /\ fr.swapped

\* C5: in every frame the GL error queue is polled exactly once, after all
\* draw and dispatch calls of the frame; a reported error is written to
\* std::cerr and no further frame is started.
C5_ErrorPoll ==
    /\ fr.polls <= 1
    /\ (fr.swapped => fr.polls = 1)
    /\ (pc.ph \in {"teardown", "done"} /\ frames > 0 /\ exit # "1" => fr.polls = 1)
    /\ ~fr.lateDraw
    /\ (errFrame => <<"glerror", "frame">> \in cerr)
    /\ ~frameAfterErr

\* C5: glGetError reports an error in the second frame of a run
C5_Witness ==
    /\ errFrame
    /\ frames = 2
    /\ fr.polls = 1
    /\ Finished
    /\ exit = "0"

\* C6: on the normal exit path every GL object main created has been
\* deleted by the time main returns.
C6_AllObjectsDeleted ==
    Finished /\ exit = "0" => live = {}

\* C6: 13compute_shader_nbody returns 0 with two programs, two shaders and
\* the query never passed to a glDelete* call
C6_Witness ==
    /\ ex = "13compute_shader_nbody"
    /\ Finished
    /\ exit = "0"
    /\ live = {H("tiled_acceleration_shader"), H("tiled_acceleration_program"),
               H("integrate_shader"), H("integrate_program"), H("query")}

\* C7: on every exit path, early returns included, the window is closed
\* (where one was opened) and the window system is terminated before main
\* returns.
C7_WindowSystemShutDown ==
    Finished /\ exit \in {"0", "1"} => window # "open" /\ glfw # "init"

\* C7: 05fbo_fxaa returns 1 from a post-effect compile failure with the
\* window open
C7_Witness ==
    /\ ex = "05fbo_fxaa"
    /\ Finished
    /\ exit = "1"
    /\ <<"compile", "post_effect_fragment_shader">> \in failed
    /\ window = "open"
    /\ glfw = "init"

C9_OnlyPollAndSwapBlock == fr.blocked \subseteq {"pollEvents", "swap"}

\* the examples that read a timer query result back with GL_QUERY_RESULT
ReadsTimerQuery == {"10queries_conditional_render", "13compute_shader_nbody",
                    "XXcompute_shader_nbody"}

\* C9, amended: besides the event poll and the buffer swap a frame waits
\* for a GPU result only in the timer query read of 10queries, 13 and
\* XXcompute_shader_nbody and in the conditional render of 10queries.
C9_BlockingSteps ==
    fr.blocked \subseteq
        {"pollEvents", "swap"}
        \cup (IF ex \in ReadsTimerQuery THEN {"glGetQueryObjectui64v"} ELSE {})
        \cup (IF ex = "10queries_conditional_render"
              THEN {"glBeginConditionalRender"} ELSE {})

\* C9: a frame of 13compute_shader_nbody has swapped and read its query
C9_Witness ==
    /\ ex = "13compute_shader_nbody"
    /\ fr.swapped
    /\ "glGetQueryObjectui64v" \in fr.blocked

StrictRank(p) ==
    CASE p = "init" -> 1 [] p = "compile" -> 2 [] p = "build" -> 3
      [] p = "loop" -> 4 [] p = "teardown" -> 5
      [] p = "uniform" -> 1 [] p = "draw" -> 2 [] p = "swap" -> 3

Rank(p) ==
    CASE p = "init" -> 1 [] p = "compile" -> 2 [] p = "build" -> 2
      [] p = "loop" -> 3 [] p = "teardown" -> 4

C11_TripleBuffered ==
    ex = "08map_buffer" /\ fr.drawn # <<>> =>
        /\ Len(fr.maps) = 1
        /\ Len(fr.uploads) = 1
        /\ Len(fr.drawn) = 1
        /\ fr.maps[1] \in {A("vbo", k) : k \in 0..buffercount_08 - 1}
        /\ gl.host = frames
        /\ fr.uploads[1] = <<fr.maps[1], frames>>
        /\ gl.mapped = None
        /\ fr.drawn[1][1] # fr.maps[1]
        /\ fr.drawn[1][1] = A("vbo", (frames - 1) % buffercount_08)
        /\ fr.drawn[1][2] = IF frames <= 2 THEN 0 ELSE frames - 2

\* C11: the third frame of 08map_buffer has mapped and rewritten vbo[1],
\* has drawn vbo[2], which holds the positions uploaded in the first frame,
\* and was presented
C11_Witness ==
    /\ ex = "08map_buffer"
    /\ frames = 3
    /\ fr.maps = <<A("vbo", 1)>>
    /\ fr.uploads = <<<<A("vbo", 1), 3>>>>
    /\ fr.drawn = <<<<A("vbo", 2), 1>>>>
    /\ fr.swapped

(***************************************************************************)
(* 09transform_feedback: the two vertex buffers                            *)
(***************************************************************************)
\* C18: in every frame of 09transform_feedback the transform feedback reads
\* one buffer and writes the other, frame n (counted from 1) reads
\* vbo[n % 2] and writes vbo[(n-1) % 2], so that the source of frame n+1 is
\* the target of frame n; the buffer drawn is the target just written; and
\* the target holds the particles after exactly n update steps, the source
\* those after n-1.
C18_PingPong ==
    ex = "09transform_feedback" /\ fr.feedback # <<>> =>
        /\ Len(fr.feedback) = 1
        /\ fr.feedback[1][1] # fr.feedback[1][2]
        /\ fr.feedback[1][1] = A("vbo", frames % buffercount_09)
        /\ fr.feedback[1][2] = A("vbo", (frames - 1) % buffercount_09)
        /\ Stored(fr.feedback[1][2]) = frames
        /\ Stored(fr.feedback[1][1]) = frames - 1
        /\ fr.drawn \in {<<>>, <<<<fr.feedback[1][2], frames>>>>}

\* C18: the second frame of 09transform_feedback read vbo[0], which the
\* first frame had written, wrote vbo[1], drew vbo[1] holding the particles
\* after two steps, and was presented
C18_Witness ==
    /\ ex = "09transform_feedback"
    /\ frames = 2
    /\ fr.feedback = <<<<A("vbo", 0), A("vbo", 1)>>>>
    /\ fr.drawn = <<<<A("vbo", 1), 2>>>>
    /\ gl.store[A("vbo", 0)] = 1
    /\ fr.swapped

(***************************************************************************)
(* One update step of a particle on the host and in the vertex shader      *)
(***************************************************************************)
PhysicsInit ==
    /\ ex = "09transform_feedback"
    /\ AtEntry
    /\ particle \in [in : [pos : Positions, vel : Velocities],
                     cpu : {Pending}, gpu : {Pending}]
    /\ kern = Idle

\* the loop body of 08, lines 252-273, applied to the particle
UpdateOnHost ==
    /\ ~particle.cpu.done
    /\ particle' = [particle EXCEPT !.cpu = update_physics(particle.in)]
    /\ UNCHANGED <<kern, progVars>>

\* the vertex shader of 09, lines 209-226, applied to the particle
UpdateInShader ==
    /\ ~particle.gpu.done
    /\ particle' = [particle EXCEPT !.gpu = transform_vertex(particle.in)]
    /\ UNCHANGED <<kern, progVars>>

PhysicsNext == UpdateOnHost \/ UpdateInShader
PhysicsSpec == PhysicsInit /\ [][PhysicsNext]_vars

\* the particle lies inside sphere j
Inside(p, j) ==
    LET diff == VSub(p.pos, center[j])
    IN  QLess(dot(diff, diff), QMul(radius[j], radius[j]))

\* C12: one update step in the vertex shader of 09transform_feedback gives
\* a particle the velocity and position that one update step of the host
\* loop of 08map_buffer gives it; where the particle is put back to a
\* starting position, that position is left out of the comparison.
C12_SameStep ==
    particle.cpu.done /\ particle.gpu.done => particle.cpu = particle.gpu

\* C12: a particle inside the first sphere only and moving into it was
\* reflected there, and both updates agree on the result
C12_Witness ==
    /\ particle.in = [pos |-> vec3(0 - 3, 0 - 4, 0), vel |-> vec3(0, 1, 0)]
    /\ Inside(particle.in, 2) /\ Inside(particle.in, 3)
    /\ particle.cpu.done /\ particle.gpu.done
    /\ ~particle.cpu.respawn /\ ~particle.gpu.respawn
    /\ particle.cpu.vel # particle.gpu.vel

(***************************************************************************)
(* Query objects                                                           *)
(***************************************************************************)
\* the query calls of the current loop iteration, in order
QueryCalls == SelectSeq(fr.peel, LAMBDA e : e.k \in {"glBeginQuery", "glEndQuery"})

\* C20: in 10queries_conditional_render and 13compute_shader_nbody no query
\* call is made in a state in which the GL rejects it (a second query begun
\* on a target, a query ended that was not begun, a result or a conditional
\* render asked of a query that was never begun and ended or is active);
\* every glBeginQuery of a loop iteration is followed by the glEndQuery of
\* the same query, with no other query call in between on its target,
\* before the iteration calls glGetError
C20_QueriesSafe ==
    ex \in {"10queries_conditional_render", "13compute_shader_nbody"} =>
        /\ gl.faults = {}
        /\ \A t \in DOMAIN gl.active :
               gl.active[t] # None => gl.active[t] \notin gl.ended
        /\ At(Code, "getError") =>
               /\ \A t \in DOMAIN gl.active : gl.active[t] = None
               /\ \A k \in 1..Len(fr.peel) :
                      fr.peel[k].k = "glBeginQuery" =>
                          \E m \in k + 1..Len(fr.peel) :
                              /\ fr.peel[m].k = "glEndQuery"
                              /\ fr.peel[m].q = fr.peel[k].q

\* the fifth iteration of 10queries_conditional_render has read the timer
\* result of the first, after both kinds of query were begun and ended
C20_Witness ==
    /\ ex = "10queries_conditional_render"
    /\ frames = 5
    /\ <<"timer", "ms/frame">> \in cout
    /\ "glGetQueryObjectui64v" \in fr.blocked
    /\ {A("queries", k) : k \in 0..querycount - 1} \subseteq gl.ended
    /\ A("chunk.query", 0) \in gl.ended
    /\ Len(QueryCalls) = 4
    /\ gl.faults = {}

(***************************************************************************)
(* The space key                                                           *)
(***************************************************************************)
SpaceExamples == {"05fbo_fxaa", "10queries_conditional_render", "11tesselation",
                  "13compute_shader_nbody"}

\* C14: in 05fbo_fxaa, 10queries_conditional_render, 11tesselation and
\* 13compute_shader_nbody the feature flag differs from its value at the
\* start of the loop iteration exactly when the iteration has sampled the
\* space key as down and the previous iteration sampled it as up (up before
\* the first); outside the loop it keeps its value; while the key has been
\* down in one or more consecutive iterations the flag has flipped once
C14_EdgeTriggered ==
    ex \in SpaceExamples =>
        /\ loc.flag = IF fr.sampled /\ fr.space /\ ~fr.prev THEN ~fr.flag0 ELSE fr.flag0
        /\ frames = 0 => loc.flag = InitialFlag(ex)
        /\ fr.held > 0 => fr.flips = 1
        /\ fr.held = 0 => fr.flips = 0

\* C14: space held over the first two iterations of
\* 13compute_shader_nbody: the flag flipped in the first and kept its value
\* in the second
C14_Witness ==
    /\ ex = "13compute_shader_nbody"
    /\ frames = 2
    /\ InitialFlag(ex) = FALSE /\ loc.flag
    /\ fr.held = 2
    /\ fr.flips = 1
    /\ fr.sampled /\ fr.space /\ fr.prev
    /\ loc.flag = fr.flag0
    /\ loc.flag # InitialFlag(ex)
    /\ fr.swapped

(***************************************************************************)
(* The peel loop of 10queries_conditional_render over several chunks       *)
(***************************************************************************)
\* the number of chunks the terrain was cut into
PeelChunks == 2

\* the objects of the chunks vector after the extraction loop of lines
\* 247-444 has run n times
ChunkObjects(n) ==
    {A(name, c) : name \in {"chunk.vao", "chunk.vbo", "chunk.ibo", "chunk.bounding_vao",
                            "chunk.bounding_vbo", "chunk.bounding_ibo", "chunk.query"},
                  c \in 0..n - 1}

\* the buffers among them, all filled by glBufferData
ChunkBuffers(n) ==
    {A(name, c) : name \in {"chunk.vbo", "chunk.ibo", "chunk.bounding_vbo",
                            "chunk.bounding_ibo"},
                  c \in 0..n - 1}

\* the state in which 10queries_conditional_render enters its loop when
\* nothing failed in setup (lines 89-467) and the terrain has n chunks
SetupDone(n) ==
    /\ ex = "10queries_conditional_render"
    /\ pc = [ph |-> "loop", i |-> 1]
    /\ glfw = "init"
    /\ window = "open"
    /\ ctx = TRUE
    /\ live = ChunkObjects(n)
              \cup {A("queries", k) : k \in 0..querycount - 1}
              \cup {H("vertex_shader"), H("fragment_shader"), H("shader_program"),
                    H("query_vertex_shader"), H("query_fragment_shader"),
                    H("query_shader_program")}
    /\ deleted = {}
    /\ attached = {<<"shader_program", "vertex_shader">>,
                   <<"shader_program", "fragment_shader">>,
                   <<"query_shader_program", "query_vertex_shader">>,
                   <<"query_shader_program", "query_fragment_shader">>}
    /\ begun = {}
    /\ gl = [NoBindings EXCEPT
                !.array = A("chunk.bounding_vbo", n - 1),
                !.vao = A("chunk.bounding_vao", n - 1),
                !.attrib = [v \in {A(name, c) : name \in {"chunk.vao", "chunk.bounding_vao"},
                                                c \in 0..n - 1} |->
                               IF v[1] = "chunk.vao" THEN A("chunk.vbo", v[2])
                               ELSE A("chunk.bounding_vbo", v[2])],
                !.store = [b \in ChunkBuffers(n) |-> 0],
                !.depth = TRUE]
    /\ misuse = {}
    /\ failed = {}
    /\ detected = {}
    /\ uniformQueried = {"shader_program", "query_shader_program"}
    /\ cerr = {}
    /\ cout = {}
    /\ exit = "running"
    /\ frames = 0
    /\ loc = [flag |-> InitialFlag(ex), space_down |-> FALSE, cur |-> 0,
              running |-> FALSE, i |-> 0, j |-> 0, maxdist |-> 0]
    /\ inp = [esc |-> FALSE, space |-> FALSE, close |-> FALSE]
    /\ view = [c \in 0..n - 1 |-> [dist |-> chunksize \div 2, out |-> FALSE]]
    /\ chunks = [k \in 1..n |-> k - 1]
    /\ fr = NextFrame(NewFrame, InitialFlag(ex))
    /\ phaseLog = <<"init", "compile", "build">>
    /\ errFrame = FALSE
    /\ frameAfterErr = FALSE

PeelInit ==
    /\ SetupDone(PeelChunks)
    /\ particle = Untracked
    /\ kern = Idle

\* the steps of the loop of lines 468-629
PeelStep ==
    \/ LoopHead \/ glfwPollEvents \/ Camera \/ KeySpace
    \/ glBind \/ glUniform \/ glState \/ SortChunks
    \/ glBeginQuery \/ PeelWhile \/ IfOcclusionCull \/ ChunkFor
    \/ glDraw \/ glEndQuery \/ ChunkNext \/ ResetJ
    \/ glBeginConditionalRender \/ glEndConditionalRender \/ PeelNext
    \/ glIsQuery \/ glGetQueryObjectui64v \/ AdvanceRing
    \/ glGetError \/ glfwSwapBuffers

SpecPeel == PeelInit /\ [][PeelStep]_vars

\* the setup of the whole program ends in the state the peel loop is
\* started from
SetupAgrees ==
    ex = "10queries_conditional_render" /\ pc = [ph |-> "loop", i |-> 1]
        /\ frames = 0 /\ failed = {} => SetupDone(NumChunks)

\* the peel loop runs to its end when the program keeps running
FairPeel == SpecPeel /\ WF_vars(PeelStep)

\* the positions in the history of the current iteration at which chunk c
\* was drawn (kind "draw") or rejected by the frustum test ("culled")
InDrawPass(c) ==
    {k \in 1..Len(fr.peel) : fr.peel[k].k \in {"draw", "culled"} /\ fr.peel[k].c = c}

\* the chunks whose bounding box was drawn in the slice that ends at s
Queried(s) == {e.c : e \in {x \in Range(fr.peel) : x.k = "box" /\ x.s = s}}
\* the chunks drawn in the slice that ends at s
Drawn(s) == {e.c : e \in {x \in Range(fr.peel) : x.k = "draw" /\ x.s = s}}

\* the slices begun, and those completed
Slices == {e.s : e \in Range(fr.peel)}
Completed == {s \in Slices : s < loc.maxdist}

PeelDone == \E k \in 1..Len(fr.peel) :
               fr.peel[k].k = "glEndQuery" /\ fr.peel[k].q[1] = "queries"

\* no chunk was in the draw pass twice, the chunks of a slice are nearer
\* than those of a later slice and are handled before them, and after the
\* loop every chunk has been in the draw pass
PeelOrder ==
    ex = "10queries_conditional_render" /\ pc.ph = "loop" =>
        /\ \A c \in DOMAIN view : Cardinality(InDrawPass(c)) <= 1
        /\ PeelDone => \A c \in DOMAIN view : Cardinality(InDrawPass(c)) = 1
        /\ \A c, d \in DOMAIN view :
              \A a \in InDrawPass(c), b \in InDrawPass(d) :
                  /\ fr.peel[a].s < fr.peel[b].s =>
                        a < b /\ view[c].dist < view[d].dist
                  /\ view[c].dist < fr.peel[a].s
                  /\ view[c].dist >= fr.peel[a].s - 2 * chunksize
                        \/ fr.peel[a].s = chunksize

\* C19: in every loop iteration of 10queries_conditional_render the peel
\* loop, once entered, reaches the glEndQuery that follows it; it puts
\* each chunk through the draw pass exactly once (drawn or rejected by the
\* frustum test), slice by slice, every chunk of a slice nearer to the
\* camera than every chunk of a later slice, with occlusion culling on and
\* off
C19_PeelTerminates ==
    /\ []PeelOrder
    /\ (At(Code, "peelWhile") ~> (At(Code, "endQuery") /\ I(Code).ln = 609))

\* without occlusion culling: two chunks in different slices, the far one
\* rejected by the frustum test, and the loop has ended
C19_Witness ==
    /\ ex = "10queries_conditional_render"
    /\ ~loc.flag
    /\ PeelDone
    /\ view[1].dist > 3 * chunksize /\ view[1].out /\ view[0].dist < chunksize
    /\ \E k \in InDrawPass(0) : fr.peel[k].k = "draw" /\ fr.peel[k].s = chunksize
    /\ \E k \in InDrawPass(1) : fr.peel[k].k = "culled" /\ fr.peel[k].s = 5 * chunksize
    /\ loc.maxdist = 7 * chunksize
    /\ fr.swapped

(***************************************************************************)
(* The passes of 13compute_shader_nbody                                    *)
(***************************************************************************)
\* C17: in every loop iteration of 13compute_shader_nbody the integrate
\* dispatch reads the velocities the acceleration dispatch of the same
\* iteration wrote, and the draw reads the positions the integrate
\* dispatch of the same iteration wrote
C17_PassesOrdered ==
    ex = "13compute_shader_nbody" =>
        \A k \in 1..Len(fr.reads) :
            LET r == fr.reads[k]
            IN  /\ r.pass = "integrate_program" /\ r.buf = H("velocities_vbo") =>
                      r.seen = frames
                /\ r.pass = "draw" => r.seen = frames

\* the integrate dispatch of the first iteration has read the velocities
\* that glBufferData stored, not those the acceleration dispatch wrote
C17_Witness ==
    /\ ex = "13compute_shader_nbody"
    /\ frames = 1
    /\ gl.store[H("velocities_vbo")] = 1
    /\ gl.unsynced[H("velocities_vbo")] = 0
    /\ \E k \in 1..Len(fr.reads) :
          fr.reads[k] = [pass |-> "integrate_program", buf |-> H("velocities_vbo"),
                         seen |-> 0, stored |-> 1]

(***************************************************************************)
(* One dispatch of a compute kernel of 13compute_shader_nbody              *)
(***************************************************************************)
Kernels == {"acceleration", "tiled_acceleration", "integrate"}

\* glDispatchCompute(particles/256, 1, 1) with one of the three programs in
\* use, on any positions
KernelInit ==
    /\ ex = "13compute_shader_nbody"
    /\ AtEntry
    /\ particle = Untracked
    /\ kern \in [kernel : Kernels,
                  positions : [Invocations -> {Position(p) : p \in PosVals}],
                  velocities : {[n \in Invocations |-> Velocity(n)]},
                  inv : {[n \in Invocations |-> Started]},
                  tmp : {[w \in 0..NumWorkGroups - 1 |->
                             [l \in 0..WorkGroupSize - 1 |-> Unwritten]]},
                  access : {{}}]

\* invocation n has read (op "r") or written ("w") element elem of buf
Access(op, buf, elem, n) == [op |-> op, buf |-> buf, elem |-> elem, inv |-> n]

\* int index = int(gl_GlobalInvocationID);
\* position = positions[index]; velocity = velocities[index];
\* vec3 acceleration = vec3(0,0,0);
KLoad(n) ==
    /\ kern.kernel \in Kernels
    /\ kern.inv[n].pc = "load"
    /\ kern' = [kern EXCEPT
                  !.inv[n] = [@ EXCEPT !.position = kern.positions[n],
                                       !.velocity = kern.velocities[n],
                                       !.pc = CASE kern.kernel = "acceleration" -> "loop"
                                                [] kern.kernel = "tiled_acceleration" -> "fill"
                                                [] OTHER -> "store"],
                  !.access = @ \cup {Access("r", "positions", n, n),
                                     Access("r", "velocities", n, n)}]
    /\ UNCHANGED <<particle, progVars>>

\* for(int i = 0;i<N;++i) { vec3 other = positions[i].xyz; ...
\*     acceleration -= diff*0.1*invdist*invdist*invdist; }      (200-205)
AccLoop(n) ==
    /\ kern.kernel = "acceleration"
    /\ kern.inv[n].pc = "loop"
    /\ kern.inv[n].i < N
    /\ LET i == kern.inv[n].i
       IN  kern' = [kern EXCEPT
                      !.inv[n] = [@ EXCEPT
                          !.acceleration = Append(@, Term(kern.inv[n].position,
                                                          kern.positions[i])),
                          !.from = Append(@, i),
                          !.i = i + 1,
                          !.pc = IF i + 1 < N THEN "loop" ELSE "store"],
                      !.access = @ \cup {Access("r", "positions", i, n)}]
    /\ UNCHANGED <<particle, progVars>>

\* the same without the tile offset: tmp[l] = positions[l]
TileFill_mutant(n) ==
    /\ kern.kernel = "tiled_acceleration"
    /\ kern.inv[n].pc = "fill"
    /\ LET from == Local(n)
       IN  kern' = [kern EXCEPT
                      !.tmp[WorkGroup(n)][Local(n)] =
                          [val |-> kern.positions[from], idx |-> from,
                           tile |-> kern.inv[n].tile],
                      !.inv[n] = [@ EXCEPT !.pc = "barrier1", !.b = @ + 1],
                      !.access = @ \cup {Access("r", "positions", from, n)}]
    /\ UNCHANGED <<particle, progVars>>

\* tmp[gl_LocalInvocationIndex] = positions[tile + int(gl_LocalInvocationIndex)];
\* the invocation then arrives at the barrier of lines 254-255
TileFill(n) ==
    /\ kern.kernel = "tiled_acceleration"
    /\ kern.inv[n].pc = "fill"
    /\ LET from == kern.inv[n].tile + Local(n)
       IN  kern' = [kern EXCEPT
                      !.tmp[WorkGroup(n)][Local(n)] =
                          [val |-> kern.positions[from], idx |-> from,
                           tile |-> kern.inv[n].tile],
                      !.inv[n] = [@ EXCEPT !.pc = "barrier1", !.b = @ + 1],
                      !.access = @ \cup {Access("r", "positions", from, n)}]
    /\ UNCHANGED <<particle, progVars>>

\* what an invocation does when it leaves a barrier: after the first it
\* enters the loop over tmp, after the second the next tile or the store
Leave(v) ==
    IF v.pc = "barrier1" THEN [v EXCEPT !.pc = "loop", !.i = 0]
    ELSE [v EXCEPT !.tile = @ + WorkGroupSize,
                   !.pc = IF v.tile + WorkGroupSize < N THEN "fill" ELSE "store"]

\* a barrier that lets an invocation through at once
Barrier_mutant(n) ==
    /\ kern.kernel = "tiled_acceleration"
    /\ kern.inv[n].pc \in {"barrier1", "barrier2"}
    /\ kern' = [kern EXCEPT !.inv[n] = Leave(@)]
    /\ UNCHANGED <<particle, progVars>>

\* groupMemoryBarrier(); barrier();  (254-255 and 262-263): the invocation
\* goes on when every invocation of its work group has arrived, and the
\* writes to tmp made before are visible to all of them
Barrier(n) ==
    /\ kern.kernel = "tiled_acceleration"
    /\ kern.inv[n].pc \in {"barrier1", "barrier2"}
    /\ \A m \in Group(n) : kern.inv[m].b >= kern.inv[n].b
    /\ kern' = [kern EXCEPT !.inv[n] = Leave(@)]
    /\ UNCHANGED <<particle, progVars>>

\* for(int i = 0;i<gl_WorkGroupSize.x;++i) { vec3 other = tmp[i].xyz; ...
\*     acceleration -= diff*0.1*invdist*invdist*invdist; }      (256-261)
\* after the last slot the invocation arrives at the barrier of 262-263
TileLoop(n) ==
    /\ kern.kernel = "tiled_acceleration"
    /\ kern.inv[n].pc = "loop"
    /\ LET i == kern.inv[n].i
           slot == kern.tmp[WorkGroup(n)][i]
       IN  kern' = [kern EXCEPT
                      !.inv[n] = [@ EXCEPT
                          !.acceleration = Append(@, Term(kern.inv[n].position, slot.val)),
                          !.from = Append(@, slot.idx),
                          !.i = i + 1,
                          !.pc = IF i + 1 < WorkGroupSize THEN "loop" ELSE "barrier2",
                          !.b = IF i + 1 < WorkGroupSize THEN @ ELSE @ + 1]]
    /\ UNCHANGED <<particle, progVars>>

\* velocities[index] = vec4(velocity+dt*acceleration,0);        (206, 264)
\* position.xyz += dt*velocity.xyz; positions[index] = position; (306-307)
KStore(n) ==
    /\ kern.kernel \in Kernels
    /\ kern.inv[n].pc = "store"
    /\ kern' = IF kern.kernel = "integrate"
               THEN [kern EXCEPT
                       !.positions[n] = Moved(kern.inv[n].position, kern.inv[n].velocity),
                       !.inv[n].pc = "done",
                       !.access = @ \cup {Access("w", "positions", n, n)}]
               ELSE [kern EXCEPT
                       !.velocities[n] = Accelerated(kern.inv[n].velocity,
                                                     kern.inv[n].acceleration),
                       !.inv[n].pc = "done",
                       !.access = @ \cup {Access("w", "velocities", n, n)}]
    /\ UNCHANGED <<particle, progVars>>

\* the invocations of a dispatch run in any order
KernelStep ==
    \E n \in Invocations :
        \/ KLoad(n) \/ AccLoop(n) \/ TileFill(n) \/ Barrier(n) \/ TileLoop(n)
        \/ KStore(n)

SpecKernel == KernelInit /\ [][KernelStep]_vars

\* the velocities at the start of the dispatch
InitialVelocities == [n \in Invocations |-> Velocity(n)]

\* C15: an invocation of the tiled acceleration kernel accumulates the
\* terms of the particles 0, 1, ..., N-1 in this order, each once, as one
\* of the straightforward kernel does, and writes the velocity the
\* straightforward kernel writes; N = 256 * (particles/256) = particles
C15_TiledEquivalent ==
    /\ local_size_x * (particles \div local_size_x) = particles
    /\ kern.kernel \in {"acceleration", "tiled_acceleration"} =>
          \A n \in Invocations :
              kern.inv[n].pc = "done" =>
                  /\ kern.inv[n].from = [i \in 1..N |-> i - 1]
                  /\ kern.velocities[n] =
                        acceleration_main(n, kern.positions, InitialVelocities)

\* a tiled dispatch on positions 1, 2, 2, 1 has finished
C15_Witness ==
    /\ kern.kernel = "tiled_acceleration"
    /\ \A n \in Invocations : kern.inv[n].pc = "done"
    /\ kern.positions = [n \in Invocations |-> Position(IF n \in {0, N - 1} THEN 1 ELSE 2)]
    /\ kern.velocities[1].terms =
          [i \in 1..N |-> Term(Position(2), Position(IF i \in {1, N} THEN 1 ELSE 2))]

\* C16: in every dispatch of 13compute_shader_nbody an invocation writes
\* only its own buffer element, and no element written by an invocation is
\* read or written by another; in the tiled kernel every tmp slot an
\* invocation is about to read in the loop over a tile holds what its
\* owner wrote for that tile, and when an invocation overwrites its slot
\* for the next tile every invocation of the work group has finished the
\* loop over the current tile
C16_RaceFree ==
    kern.kernel \in Kernels =>
        /\ \A a \in kern.access :
              a.op = "w" =>
                  /\ a.elem = a.inv
                  /\ \A o \in kern.access :
                        o.buf = a.buf /\ o.elem = a.elem => o.inv = a.inv
        /\ \A n \in Invocations :
              /\ kern.inv[n].pc = "loop" /\ kern.kernel = "tiled_acceleration" =>
                    \A i \in kern.inv[n].i..WorkGroupSize - 1 :
                        kern.tmp[WorkGroup(n)][i].tile = kern.inv[n].tile
              /\ kern.inv[n].pc = "fill" =>
                    \A m \in Group(n) :
                        \/ kern.inv[m].tile = kern.inv[n].tile
                        \/ /\ kern.inv[m].tile = kern.inv[n].tile - WorkGroupSize
                           /\ kern.inv[m].pc = "barrier2"

\* both invocations of work group 0 are in the loop over the second tile,
\* one a slot ahead of the other, while work group 1 has not started
C16_Witness ==
    /\ kern.kernel = "tiled_acceleration"
    /\ kern.inv[0].pc = "loop" /\ kern.inv[0].tile = WorkGroupSize /\ kern.inv[0].i = 1
    /\ kern.inv[1].pc = "loop" /\ kern.inv[1].tile = WorkGroupSize /\ kern.inv[1].i = 0
    /\ kern.tmp[0][0].idx = WorkGroupSize
    /\ kern.inv[N - 1].pc = "load"

(***************************************************************************)
(* 10queries_conditional_render: the ring of timer queries                 *)
(***************************************************************************)
\* C21: in 10queries_conditional_render the frame time printed during
\* frame n is the result of the timer query issued during frame
\* n - querycount, taken from a ring of querycount timer queries that
\* advances by one per frame.
C21_TimerLag ==
    ex = "10queries_conditional_render" /\ fr.timer # <<>> =>
        /\ Len(fr.timer) = 1
        /\ fr.timer[1][1] \in {A("queries", k) : k \in 0..querycount - 1}
        /\ fr.timer[1][2] = frames - querycount

\* C21: the fifth frame began the timer query queries[4], printed the
\* result of queries[0], which the first frame had issued, and was presented
C21_Witness ==
    /\ ex = "10queries_conditional_render"
    /\ frames = querycount
    /\ fr.timer = <<<<A("queries", 0), 1>>>>
    /\ DOMAIN gl.result = {A("queries", k) : k \in 0..querycount - 1}
    /\ gl.result[A("queries", querycount - 1)] = frames
    /\ <<"timer", "ms/frame">> \in cout
    /\ fr.swapped

(***************************************************************************)
(* 05fbo_fxaa: the offscreen pass and the post-processing pass             *)
(***************************************************************************)
\* C22: in 05fbo_fxaa, in a frame with fxaa on the cube is drawn into the
\* offscreen framebuffer with depth testing enabled and afterwards one
\* fullscreen quad sampling that framebuffer's texture is drawn to the
\* default framebuffer with depth testing disabled; in a frame with fxaa
\* off the cube is drawn directly to the default framebuffer and no
\* post-processing draw is issued; in both cases the default framebuffer is
\* the one bound when the buffers are swapped.
C22_FxaaPasses ==
    ex = "05fbo_fxaa" =>
        /\ Len(fr.passes) <= (IF loc.flag THEN 2 ELSE 1)
        /\ Len(fr.passes) >= 1 =>
              /\ fr.passes[1].vao = H("vao")
              /\ fr.passes[1].prog = H("shader_program")
              /\ fr.passes[1].depth
              /\ fr.passes[1].fb = (IF loc.flag THEN H("fbo") ELSE None)
        /\ Len(fr.passes) >= 2 =>
              /\ fr.passes[2].vao = H("post_effect_vao")
              /\ fr.passes[2].prog = H("post_effect_shader_program")
              /\ ~fr.passes[2].depth
              /\ fr.passes[2].fb = None
              /\ H("fbo") \in DOMAIN gl.color
              /\ fr.passes[2].tex = gl.color[H("fbo")]
        /\ fr.swapped =>
              /\ Len(fr.passes) = (IF loc.flag THEN 2 ELSE 1)
              /\ gl.fb = None

\* C22: the second frame in a row with fxaa on has drawn the cube into fbo
\* with the depth test enabled again, then the quad that samples texture to
\* the default framebuffer without depth test, and was presented
C22_Witness ==
    /\ ex = "05fbo_fxaa"
    /\ frames = 2
    /\ fr.flag0 /\ loc.flag
    /\ Len(fr.passes) = 2
    /\ fr.passes[1] = [vao |-> H("vao"), fb |-> H("fbo"), depth |-> TRUE,
                       prog |-> H("shader_program"), tex |-> H("texture")]
    /\ fr.passes[2] = [vao |-> H("post_effect_vao"), fb |-> None, depth |-> FALSE,
                       prog |-> H("post_effect_shader_program"), tex |-> H("texture")]
    /\ gl.color = (H("fbo") :> H("texture"))
    /\ gl.fb = None
    /\ fr.swapped

(***************************************************************************)
(* The running flag of the GLFW 2 examples                                 *)
(***************************************************************************)
\* the render loop has been entered: running = true has been executed
LoopEntered == ex \in Glfw2Examples /\ pc.ph # "setup"

\* the loop has only been left with running false, after the swap of the
\* last frame started
LeftAfterSwap ==
    LoopEntered /\ pc.ph # "loop" /\ frames > 0 => ~loc.running /\ fr.swapped

\* a step after the loop was entered: running does not become true again,
\* no frame is started while it is false, and the loop is left only at its
\* head
RunningStep ==
    LoopEntered =>
        /\ ~loc.running => ~loc.running'
        /\ ~loc.running => frames' = frames
        /\ pc.ph = "loop" /\ pc'.ph # "loop" =>
              /\ I(Code).op = "while"
              /\ ~loc.running
              /\ pc'.ph = "teardown"

====
